---- MODULE Spec2Model ----
(***************************************************************************)
(* Model of the review-orchestration engine of DesunTech/code_review:      *)
(*   src/ai_code_reviewer/multi_provider_integration.py                    *)
(*       MultiProviderReviewer (token estimate, file filter, chunking,     *)
(*       provider fallback chain, per-chunk result parsing)                *)
(*   src/ai_code_reviewer/ai_code_reviewer.py                              *)
(*       AICodeReviewer (review_diff, _parse_review_response)              *)
(*                                                                         *)
(* Short texts (provider replies, file paths) are TLA+ strings handled     *)
(* character by character.  A diff is held as the list of its lines        *)
(* (what diff_content.split('\n') yields); a line is a record              *)
(* [head, fill]: the characters of head followed by fill filler            *)
(* characters (a character that is no newline and occurs in no marker or   *)
(* pattern the code looks for), so that diffs of several hundred thousand  *)
(* characters are measured with the program's real thresholds.             *)
(***************************************************************************)
EXTENDS Integers, Sequences, FiniteSets, TLC

VARIABLES
    providers,           \* MultiProviderReviewer.providers: the registry (ids)
    primary_provider,    \* MultiProviderReviewer.primary_provider
    fallback_providers,  \* MultiProviderReviewer.fallback_providers (a list)
    diff_content,        \* the diff handed to review_diff / review_code
    pc,                  \* position of the review task
    work,                \* review_code's diff after the optional filtering
    chunks,              \* review_code: the chunks of the chunked path
    ci,                  \* review_code: index of the chunk under review
    fi,                  \* _review_single_chunk: index of the next fallback
    prompt,              \* _review_single_chunk: the diff its prompt embeds
    attempts,            \* _review_single_chunk: its complete() calls so far
    chunk_result,        \* outcome of _review_single_chunk
    all_findings,        \* review_code: the findings accumulated so far
    done_chunks,         \* review_code: the outcomes of the finished chunks
    code_result,         \* outcome of review_code
    diff_result,         \* outcome of review_diff
    fin,                 \* pure-function specifications: the input
    fout,                \* pure-function specifications: the result
    requests,            \* RateLimiter.requests
    clock,               \* time.time(), in whole seconds
    tasks,               \* the tasks that call RateLimiter.acquire
    acquired             \* the acquire() calls that have completed

vars == <<providers, primary_provider, fallback_providers, diff_content,
          pc, work, chunks, ci, fi, prompt, attempts, chunk_result,
          all_findings, done_chunks, code_result, diff_result, fin, fout,
          requests, clock, tasks, acquired>>

limiter == <<requests, clock, tasks, acquired>>

\* no RateLimiter is in use
NoLimiter ==
    /\ requests = <<>>
    /\ clock = 0
    /\ tasks = <<>>
    /\ acquired = <<>>

-----------------------------------------------------------------------------
(* Python str primitives, on TLA+ strings.  Indices are Python's (0-based). *)

\* the element of a one-element set.  Only({e(x) : x \in {v}}) is e(v) with
\* v evaluated once and named x
Only(S) == CHOOSE x \in S : TRUE

Max(a, b) == IF a >= b THEN a ELSE b
Min(a, b) == IF a <= b THEN a ELSE b

\* s[i:j] for 0 <= i, j
Slice(s, i, j) == SubSeq(s, i + 1, Min(j, Len(s)))

CharAt(s, i) == SubSeq(s, i + 1, i + 1)

startswith(s, p) == Len(s) >= Len(p) /\ SubSeq(s, 1, Len(p)) = p

endswith(s, p) == Len(s) >= Len(p) /\ SubSeq(s, Len(s) - Len(p) + 1, Len(s)) = p

Whitespace == {" ", "\n", "\t", "\r", "\f"}

\* the lowest index of lo..hi that satisfies ok (hi + 1 if none does)
Lowest(lo, hi, ok(_)) ==
    CHOOSE i \in lo..Max(lo, hi + 1) :
        /\ i = Max(lo, hi + 1) \/ ok(i)
        /\ \A j \in lo..(i - 1) : ~ok(j)

\* the highest index of lo..hi that satisfies ok (lo - 1 if none does)
Highest(lo, hi, ok(_)) ==
    CHOOSE i \in Min(hi, lo - 1)..hi :
        /\ i = Min(hi, lo - 1) \/ ok(i)
        /\ \A j \in (i + 1)..hi : ~ok(j)

\* f(lo) \o ... \o f(hi), by halves (the evaluation stays shallow)
RECURSIVE Cat(_, _, _)
Cat(f(_), lo, hi) ==
    IF lo > hi THEN ""
    ELSE IF lo = hi THEN f(lo)
    ELSE Cat(f, lo, (lo + hi) \div 2) \o Cat(f, (lo + hi) \div 2 + 1, hi)

\* the same for lists: f(lo) \o ... \o f(hi)
RECURSIVE CatSeq(_, _, _)
CatSeq(f(_), lo, hi) ==
    IF lo > hi THEN <<>>
    ELSE IF lo = hi THEN f(lo)
    ELSE CatSeq(f, lo, (lo + hi) \div 2) \o CatSeq(f, (lo + hi) \div 2 + 1, hi)

\* f(lo) + ... + f(hi)
RECURSIVE Sum(_, _, _)
Sum(f(_), lo, hi) ==
    IF lo > hi THEN 0
    ELSE IF lo = hi THEN f(lo)
    ELSE Sum(f, lo, (lo + hi) \div 2) + Sum(f, (lo + hi) \div 2 + 1, hi)

\* a loop "for x in seq[lo..hi]: st = step(st, x)": the state after it.  The
\* loop is run by halves, and "left = left" makes TLC compute the state
\* after the first half before it starts the second; both only keep the
\* evaluation shallow.
RECURSIVE Loop(_, _, _, _, _)
Loop(step(_, _), st, seq, lo, hi) ==
    IF lo > hi THEN st
    ELSE IF lo = hi THEN step(st, seq[lo])
    ELSE LET left == Loop(step, st, seq, lo, (lo + hi) \div 2) IN
         IF left = left THEN Loop(step, left, seq, (lo + hi) \div 2 + 1, hi)
         ELSE left

lstrip(s) ==
    LET kept(i) == CharAt(s, i) \notin Whitespace IN
    Slice(s, Lowest(0, Len(s) - 1, kept), Len(s))

rstrip(s) ==
    LET kept(i) == CharAt(s, i) \notin Whitespace IN
    Slice(s, 0, Highest(0, Len(s) - 1, kept) + 1)

strip(s) == rstrip(lstrip(s))

\* s.find(p, from): the lowest index >= from where p occurs, -1 if none
FindFrom(s, p, from) ==
    LET at(i) == SubSeq(s, i + 1, i + Len(p)) = p
        i == Lowest(from, Len(s) - Len(p), at)
    IN  IF i > Len(s) - Len(p) THEN -1 ELSE i

find(s, p) == FindFrom(s, p, 0)

\* s.rfind(p): the highest index where p occurs, -1 if none
rfind(s, p) ==
    LET at(i) == SubSeq(s, i + 1, i + Len(p)) = p
        i == Highest(0, Len(s) - Len(p), at)
    IN  IF i < 0 THEN -1 ELSE i

\* p in s
contains(s, p) == find(s, p) # -1

\* s.replace(old, new), for an old that cannot overlap itself (no proper
\* prefix of it is a suffix of it), so that every occurrence is replaced:
\* what lies before the first occurrence, new, what lies between the first
\* and the second, new, ..., what follows the last
replace(s, old, new) ==
    LET occ == {i \in 0..(Len(s) - Len(old)) : SubSeq(s, i + 1, i + Len(old)) = old}
        n == Cardinality(occ)
        nth == [k \in 1..n |-> CHOOSE i \in occ : Cardinality({j \in occ : j < i}) = k - 1]
        from(k) == IF k = 1 THEN 0 ELSE nth[k - 1] + Len(old)
        piece(k) == IF k = n + 1 THEN Slice(s, from(k), Len(s))
                    ELSE Slice(s, from(k), nth[k]) \o new
    IN  Cat(piece, 1, n + 1)

LowerOf(c) ==
    CASE c = "A" -> "a" [] c = "B" -> "b" [] c = "C" -> "c" [] c = "D" -> "d"
      [] c = "E" -> "e" [] c = "F" -> "f" [] c = "G" -> "g" [] c = "H" -> "h"
      [] c = "I" -> "i" [] c = "J" -> "j" [] c = "K" -> "k" [] c = "L" -> "l"
      [] c = "M" -> "m" [] c = "N" -> "n" [] c = "O" -> "o" [] c = "P" -> "p"
      [] c = "Q" -> "q" [] c = "R" -> "r" [] c = "S" -> "s" [] c = "T" -> "t"
      [] c = "U" -> "u" [] c = "V" -> "v" [] c = "W" -> "w" [] c = "X" -> "x"
      [] c = "Y" -> "y" [] c = "Z" -> "z" [] OTHER -> c

lower(s) == LET out(i) == LowerOf(CharAt(s, i)) IN Cat(out, 0, Len(s) - 1)

\* s.split(sep)[-1]: what follows the last occurrence of sep (s if none)
SplitLast(s, sep) ==
    LET i == rfind(s, sep) IN
    IF i = -1 THEN s ELSE Slice(s, i + Len(sep), Len(s))

-----------------------------------------------------------------------------
(* Diff texts: lists of lines [head, fill].                                 *)

Line(head, fill) == [head |-> head, fill |-> fill]

LineLen(line) == Len(line.head) + line.fill

\* line.startswith(p), p a marker that holds no filler character
LineStartsWith(line, p) == startswith(line.head, p)

SumLen(lines) == LET len(k) == LineLen(lines[k]) IN Sum(len, 1, Len(lines))

\* len('\n'.join(lines))
JoinedLen(lines) == IF lines = <<>> THEN 0 ELSE SumLen(lines) + Len(lines) - 1

\* ('\n'.join(lines)).split('\n'): the text of no line is '', one empty line
JoinLines(lines) == IF lines = <<>> THEN <<Line("", 0)>> ELSE lines

\* _estimate_tokens, of a diff text held as its lines
_estimate_tokens(text) == JoinedLen(text) \div 4

\* _estimate_tokens, of one line
LineTokens(line) == LineLen(line) \div 4

-----------------------------------------------------------------------------
(* MultiProviderReviewer._filter_important_files                            *)

high_priority_patterns ==
    << "auth", "login", "password", "token", "session", "security",
       ".env", "config", "settings", ".yml", ".yaml", ".json",
       "service", "controller", "model", "handler", "api",
       "db", "database", "migration", "schema", "repository",
       "main", "index", "app", "server", "router" >>

low_priority_patterns ==
    << "test", "spec", "__test__",
       "readme", ".md", "doc",
       "package-lock", "yarn.lock", "build", "dist",
       "assets", "static", "public", "images" >>

\* any(pattern in filename_lower for pattern in patterns)
MatchesAny(filename_lower, patterns) ==
    \E k \in 1..Len(patterns) : contains(filename_lower, patterns[k])

\* the priority the loop computes for a file name (a line record)
ComputedPriority(current_file) ==
    LET filename_lower == lower(current_file.head) IN
    1 + (IF MatchesAny(filename_lower, high_priority_patterns) THEN 3 ELSE 0)
      - (IF MatchesAny(filename_lower, low_priority_patterns) THEN 2 ELSE 0)

\* current_file = line.split(' b/')[-1] if ' b/' in line else line
FileOfHeader(line) ==
    IF contains(line.head, " b/")
    THEN Line(SplitLast(line.head, " b/"), line.fill)
    ELSE line

NoFile == [none |-> TRUE]

\* bool(current_file): None and '' are false
Truthy(current_file) == current_file # NoFile /\ LineLen(current_file) > 0

HasKey(files, name) == \E k \in 1..Len(files) : files[k].name = name

\* files[name] = entry: a dict keeps the position of a key it already holds
DictPut(files, entry) ==
    IF HasKey(files, entry.name)
    THEN [k \in 1..Len(files) |->
             IF files[k].name = entry.name THEN entry ELSE files[k]]
    ELSE Append(files, entry)

\* files[name]['priority'] = priority
DictSetPriority(files, name, priority) ==
    [k \in 1..Len(files) |->
        IF files[k].name = name THEN [files[k] EXCEPT !.priority = priority]
        ELSE files[k]]

FileEntry(name, lines, priority) ==
    [name |-> name, lines |-> lines, priority |-> priority,
     size |-> JoinedLen(lines)]

\* the body of "for line in lines", on the loop state st
FilterStep(st, line) ==
    IF LineStartsWith(line, "diff --git")
    THEN LET saved == IF Truthy(st.current_file) /\ st.current_file_lines # <<>>
                      THEN DictPut(st.files,
                                   FileEntry(st.current_file, st.current_file_lines, 0))
                      ELSE st.files
             current_file == FileOfHeader(line)
             priority == ComputedPriority(current_file)
         IN  [files |-> IF HasKey(saved, current_file)
                        THEN DictSetPriority(saved, current_file, priority)
                        ELSE saved,
              current_file |-> current_file,
              current_file_lines |-> <<line>>]
    ELSE [st EXCEPT !.current_file_lines = Append(@, line)]

\* "for line in lines", then "Save last file"
FilterFiles(lines) ==
    LET st == Loop(FilterStep, [files |-> <<>>, current_file |-> NoFile,
                                current_file_lines |-> <<>>], lines, 1, Len(lines))
    IN  IF Truthy(st.current_file) /\ st.current_file_lines # <<>>
        THEN DictPut(st.files, FileEntry(st.current_file, st.current_file_lines, 1))
        ELSE st.files

\* key=lambda x: (x[1]['priority'], -x[1]['size']), compared as tuples
SortKeyLess(a, b) ==
    \/ a.priority < b.priority
    \/ a.priority = b.priority /\ (0 - a.size) < (0 - b.size)

\* sorted(files.items(), key=..., reverse=True): an item stands behind the
\* items of greater key and, sorted() being stable (under reverse=True as
\* well), behind the items of equal key that precede it in the dict
SortedFiles(files) ==
    LET before(j, i) == \/ SortKeyLess(files[i], files[j])
                        \/ ~SortKeyLess(files[j], files[i]) /\ j < i
        rank(i) == Cardinality({j \in 1..Len(files) : before(j, i)}) + 1
    IN  [r \in 1..Len(files) |-> files[CHOOSE i \in 1..Len(files) : rank(i) = r]]

\* sorted_files[:max_files]
SelectedFiles(diff, max_files) ==
    LET sorted_files == SortedFiles(FilterFiles(diff)) IN
    SubSeq(sorted_files, 1, Min(max_files, Len(sorted_files)))

\* "for file_path, file_data in selected_files: filtered_lines.extend(...)"
FlattenLines(selected) ==
    LET lines(k) == selected[k].lines IN CatSeq(lines, 1, Len(selected))

_filter_important_files(diff, max_files) ==
    JoinLines(FlattenLines(SelectedFiles(diff, max_files)))

-----------------------------------------------------------------------------
(* MultiProviderReviewer._chunk_diff                                        *)

IsFileBoundary(line) ==
    \/ LineStartsWith(line, "diff --git")
    \/ LineStartsWith(line, "+++")
    \/ LineStartsWith(line, "---")

\* current_tokens > max_chunk_tokens * 0.7 (the float product is exact for
\* the budgets used here)
Substantial(current_tokens, max_chunk_tokens) ==
    10 * current_tokens > 7 * max_chunk_tokens

\* the body of "for line in lines", on the loop state st
ChunkStep(st, line, max_chunk_tokens) ==
    LET line_tokens == LineTokens(line)
        s1 == IF /\ IsFileBoundary(line)
                 /\ Substantial(st.current_tokens, max_chunk_tokens)
                 /\ st.current_chunk # <<>>
              THEN [chunks |-> Append(st.chunks, st.current_chunk),
                    current_chunk |-> <<>>, current_tokens |-> 0]
              ELSE st
        s2 == IF /\ s1.current_tokens + line_tokens > max_chunk_tokens
                 /\ s1.current_chunk # <<>>
              THEN [chunks |-> Append(s1.chunks, s1.current_chunk),
                    current_chunk |-> <<>>, current_tokens |-> 0]
              ELSE s1
    IN  [chunks |-> s2.chunks,
         current_chunk |-> Append(s2.current_chunk, line),
         current_tokens |-> s2.current_tokens + line_tokens]

\* a chunk is the list of its lines ('\n'.join(current_chunk))
_chunk_diff(diff, max_chunk_tokens) ==
    IF _estimate_tokens(diff) <= max_chunk_tokens THEN <<diff>>
    ELSE LET step(s, line) == ChunkStep(s, line, max_chunk_tokens)
             st == Loop(step, [chunks |-> <<>>, current_chunk |-> <<>>,
                               current_tokens |-> 0], diff, 1, Len(diff))
         IN  IF st.current_chunk # <<>> THEN Append(st.chunks, st.current_chunk)
             ELSE st.chunks

-----------------------------------------------------------------------------
(* json.loads and json.dumps, for the JSON the model's texts hold: objects, *)
(* arrays, strings with the two-character escapes, integers, null, true,   *)
(* false.  A decoded value is a record [t, v]:                              *)
(*   "str" (v a string), "int" (v an integer), "null", "bool",             *)
(*   "list" (v the list of the items),                                     *)
(*   "dict" (v the list of the items [k, x], in insertion order).          *)

JStr(s) == [t |-> "str", v |-> s]
JInt(n) == [t |-> "int", v |-> n]
None == [t |-> "null", v |-> "None"]
JBool(b) == [t |-> "bool", v |-> b]
JList(items) == [t |-> "list", v |-> items]
JDict(items) == [t |-> "dict", v |-> items]

JsonWhitespace == {" ", "\t", "\n", "\r"}

Digits == <<"0", "1", "2", "3", "4", "5", "6", "7", "8", "9">>

IsDigit(c) == \E k \in 1..10 : Digits[k] = c

DigitValue(c) == (CHOOSE k \in 1..10 : Digits[k] = c) - 1

\* the index of the first character at or after i that is no whitespace
SkipWs(s, i) ==
    LET kept(j) == CharAt(s, j) \notin JsonWhitespace IN
    IF i >= Len(s) THEN i ELSE Lowest(i, Len(s) - 1, kept)

Failed(i) == [ok |-> FALSE, val |-> None, pos |-> i]
Parsed(val, i) == [ok |-> TRUE, val |-> val, pos |-> i]

\* the character an escape \c stands for ("" when \c is no escape)
Unescape(c) ==
    CASE c = "\"" -> "\"" [] c = "\\" -> "\\" [] c = "/" -> "/"
      [] c = "n" -> "\n" [] c = "t" -> "\t" [] c = "r" -> "\r" [] c = "f" -> "\f"
      [] OTHER -> ""

\* a string literal, from the character after its opening quote: plain
\* characters up to the next quote, backslash or control character, then
\* the escape or the end
RECURSIVE ParseString(_, _, _)
ParseString(s, i, acc) ==
    LET special(j) == CharAt(s, j) \in {"\"", "\\", "\n", "\t", "\r", "\f"}
        j == IF i >= Len(s) THEN i ELSE Lowest(i, Len(s) - 1, special)
        plain == acc \o Slice(s, i, j)
    IN  IF j >= Len(s) THEN Failed(j)
        ELSE IF CharAt(s, j) = "\"" THEN Parsed(JStr(plain), j + 1)
        ELSE IF CharAt(s, j) = "\\"
             THEN IF j + 1 >= Len(s) \/ Unescape(CharAt(s, j + 1)) = ""
                  THEN Failed(j)
                  ELSE ParseString(s, j + 2, plain \o Unescape(CharAt(s, j + 1)))
        ELSE Failed(j)

RECURSIVE ParseDigits(_, _, _)
ParseDigits(s, i, acc) ==
    IF i < Len(s) /\ IsDigit(CharAt(s, i))
    THEN ParseDigits(s, i + 1, 10 * acc + DigitValue(CharAt(s, i)))
    ELSE Parsed(JInt(acc), i)

\* -?(0|[1-9][0-9]*)
ParseNumber(s, i) ==
    LET neg == CharAt(s, i) = "-"
        j == IF neg THEN i + 1 ELSE i
    IN  IF j >= Len(s) \/ ~IsDigit(CharAt(s, j)) THEN Failed(i)
        ELSE LET r == IF CharAt(s, j) = "0" THEN Parsed(JInt(0), j + 1)
                      ELSE ParseDigits(s, j, 0)
             IN  IF neg THEN Parsed(JInt(0 - r.val.v), r.pos) ELSE r

\* d[k] = x on the item list of a dict
ItemPut(items, k, x) ==
    IF \E n \in 1..Len(items) : items[n].k = k
    THEN [n \in 1..Len(items) |->
             IF items[n].k = k THEN [k |-> k, x |-> x] ELSE items[n]]
    ELSE Append(items, [k |-> k, x |-> x])

RECURSIVE ParseValue(_, _)
RECURSIVE ParseItems(_, _, _)
RECURSIVE ParseMembers(_, _, _)

\* the items of an array, from the first character of an item
ParseItems(s, i, acc) ==
    LET r == ParseValue(s, i) IN
    IF ~r.ok THEN Failed(i)
    ELSE LET j == SkipWs(s, r.pos) IN
         IF j >= Len(s) THEN Failed(j)
         ELSE IF CharAt(s, j) = "]" THEN Parsed(JList(Append(acc, r.val)), j + 1)
         ELSE IF CharAt(s, j) = "," THEN ParseItems(s, SkipWs(s, j + 1), Append(acc, r.val))
         ELSE Failed(j)

\* the members of an object, from the opening quote of a key
ParseMembers(s, i, acc) ==
    IF i >= Len(s) \/ CharAt(s, i) # "\"" THEN Failed(i)
    ELSE LET key == ParseString(s, i + 1, "") IN
         IF ~key.ok THEN Failed(i)
         ELSE LET c == SkipWs(s, key.pos) IN
              IF c >= Len(s) \/ CharAt(s, c) # ":" THEN Failed(c)
              ELSE LET r == ParseValue(s, SkipWs(s, c + 1)) IN
                   IF ~r.ok THEN Failed(c)
                   ELSE LET j == SkipWs(s, r.pos)
                            items == ItemPut(acc, key.val.v, r.val)
                        IN  IF j >= Len(s) THEN Failed(j)
                            ELSE IF CharAt(s, j) = "}" THEN Parsed(JDict(items), j + 1)
                            ELSE IF CharAt(s, j) = ","
                                 THEN ParseMembers(s, SkipWs(s, j + 1), items)
                            ELSE Failed(j)

ParseValue(s, i) ==
    IF i >= Len(s) THEN Failed(i)
    ELSE LET c == CharAt(s, i) IN
         IF c = "\"" THEN ParseString(s, i + 1, "")
         ELSE IF c = "[" THEN
              LET j == SkipWs(s, i + 1) IN
              IF j < Len(s) /\ CharAt(s, j) = "]" THEN Parsed(JList(<<>>), j + 1)
              ELSE ParseItems(s, j, <<>>)
         ELSE IF c = "{" THEN
              LET j == SkipWs(s, i + 1) IN
              IF j < Len(s) /\ CharAt(s, j) = "}" THEN Parsed(JDict(<<>>), j + 1)
              ELSE ParseMembers(s, j, <<>>)
         ELSE IF startswith(Slice(s, i, Len(s)), "null") THEN Parsed(None, i + 4)
         ELSE IF startswith(Slice(s, i, Len(s)), "true") THEN Parsed(JBool(TRUE), i + 4)
         ELSE IF startswith(Slice(s, i, Len(s)), "false") THEN Parsed(JBool(FALSE), i + 5)
         ELSE ParseNumber(s, i)

\* json.loads(s): [ok, val]; ok = FALSE stands for json.JSONDecodeError
json_loads(s) ==
    Only({ LET r == ParseValue(text, SkipWs(text, 0)) IN
           IF r.ok /\ SkipWs(text, r.pos) = Len(text)
           THEN [ok |-> TRUE, val |-> r.val]
           ELSE [ok |-> FALSE, val |-> None] : text \in {s} })

RECURSIVE IntText(_)
IntText(n) ==
    IF n < 0 THEN "-" \o IntText(0 - n)
    ELSE IF n < 10 THEN Digits[n + 1]
    ELSE IntText(n \div 10) \o Digits[(n % 10) + 1]

EscapeChar(c) ==
    CASE c = "\"" -> "\\\"" [] c = "\\" -> "\\\\" [] c = "\n" -> "\\n"
      [] c = "\t" -> "\\t" [] c = "\r" -> "\\r" [] c = "\f" -> "\\f"
      [] OTHER -> c

EscapeText(s) == LET out(i) == EscapeChar(CharAt(s, i)) IN Cat(out, 0, Len(s) - 1)

RECURSIVE Spaces(_)
Spaces(n) == IF n <= 0 THEN "" ELSE " " \o Spaces(n - 1)

RECURSIVE Dumps(_, _, _)
RECURSIVE DumpItems(_, _, _, _)

\* the items of a list or a dict, one per line at depth level
DumpItems(items, isDict, level, indent) ==
    LET one(x) == IF isDict
                  THEN "\"" \o EscapeText(x.k) \o "\": " \o Dumps(x.x, level, indent)
                  ELSE Dumps(x, level, indent)
    IN  IF Len(items) = 1 THEN one(items[1])
        ELSE one(Head(items)) \o ",\n" \o Spaces(indent * level)
             \o DumpItems(Tail(items), isDict, level, indent)

Dumps(val, level, indent) ==
    CASE val.t = "str" -> "\"" \o EscapeText(val.v) \o "\""
      [] val.t = "int" -> IntText(val.v)
      [] val.t = "null" -> "null"
      [] val.t = "bool" -> IF val.v THEN "true" ELSE "false"
      [] val.t = "list" ->
            IF val.v = <<>> THEN "[]"
            ELSE "[\n" \o Spaces(indent * (level + 1))
                 \o DumpItems(val.v, FALSE, level + 1, indent)
                 \o "\n" \o Spaces(indent * level) \o "]"
      [] val.t = "dict" ->
            IF val.v = <<>> THEN "{}"
            ELSE "{\n" \o Spaces(indent * (level + 1))
                 \o DumpItems(val.v, TRUE, level + 1, indent)
                 \o "\n" \o Spaces(indent * level) \o "}"

\* json.dumps(val, indent=indent)
json_dumps(val, indent) == Dumps(val, 0, indent)

-----------------------------------------------------------------------------
(* The parsers of a provider's reply.  The backquote cannot be written in  *)
(* a TLA+ string: the texts of the model write it as the tilde, which      *)
(* occurs in none of them otherwise.                                       *)

Backquote == "~"

Fence == Backquote \o Backquote \o Backquote

\* response[n:]
DropFirst(s, n) == Slice(s, n, Len(s))

\* response[:-n]
DropLast(s, n) == Slice(s, 0, Len(s) - n)

\* MultiProviderReviewer._parse_chunk_result: the list of the findings
_parse_chunk_result(response) ==
    LET r0 == strip(response)
        r1 == IF startswith(r0, Fence \o "json") THEN DropFirst(r0, 7) ELSE r0
        r2 == IF endswith(r1, Fence) THEN DropLast(r1, 3) ELSE r1
    IN  Only({ IF ~findings.ok THEN <<>>
               ELSE IF findings.val.t = "list" THEN findings.val.v
               ELSE <<>> : findings \in {json_loads(strip(r2))} })

\* AICodeReviewer._parse_review_response, "Remove common markdown formatting"
StripFences(response_text) ==
    LET r1 == IF startswith(response_text, Fence \o "json")
              THEN DropFirst(response_text, 7) ELSE response_text
        r2 == IF startswith(r1, Fence) THEN DropFirst(r1, 3) ELSE r1
    IN  IF endswith(r2, Fence) THEN DropLast(r2, 3) ELSE r2

\* "Remove any leading/trailing text before/after JSON"
SliceToArray(response_text) ==
    LET start_idx == find(response_text, "[")
        end_idx == rfind(response_text, "]")
    IN  IF start_idx # -1 /\ end_idx # -1 /\ end_idx > start_idx
        THEN Slice(response_text, start_idx, end_idx + 1)
        ELSE response_text

\* "Additional cleaning for common issues"
CollapseNewlines(response_text) ==
    replace(replace(response_text, "\n", " "), "\r", " ")

\* "Fix common JSON formatting issues"
RepairCommas(response_text) ==
    replace(replace(response_text, "\",}", "\"}"), ",]", "]")

CleanResponse(response_text) ==
    strip(RepairCommas(CollapseNewlines(SliceToArray(StripFences(strip(response_text))))))

RequiredFields ==
    <<"severity", "category", "file", "line_start", "line_end", "message">>

HasItem(finding, key) ==
    finding.t = "dict" /\ \E n \in 1..Len(finding.v) : finding.v[n].k = key

\* finding[key], for a dict that holds key
Item(finding, key) ==
    finding.v[CHOOSE n \in 1..Len(finding.v) : finding.v[n].k = key].x

\* finding.get(key)
Get(finding, key) == IF HasItem(finding, key) THEN Item(finding, key) ELSE None

\* finding['severity'] ... finding['message'] raise for a finding that is no
\* dict (TypeError) or lacks one of the keys (KeyError)
Subscriptable(finding) ==
    \A k \in 1..Len(RequiredFields) : HasItem(finding, RequiredFields[k])

CodeReview(finding) ==
    [severity |-> Item(finding, "severity"),
     category |-> Item(finding, "category"),
     file |-> Item(finding, "file"),
     line_start |-> Item(finding, "line_start"),
     line_end |-> Item(finding, "line_end"),
     message |-> Item(finding, "message"),
     suggestion |-> Get(finding, "suggestion"),
     code_snippet |-> Get(finding, "code_snippet"),
     fixed_code |-> Get(finding, "fixed_code"),
     impact |-> Get(finding, "impact"),
     confidence |-> Get(finding, "confidence")]

\* what "for finding in findings" iterates over: the items of a list, the
\* keys of a dict, the characters of a str; nothing else is iterable
Iterable(findings) == findings.t \in {"list", "dict", "str"}

Iterated(findings) ==
    CASE findings.t = "list" -> findings.v
      [] findings.t = "dict" -> [n \in 1..Len(findings.v) |-> JStr(findings.v[n].k)]
      [] findings.t = "str" -> [n \in 1..Len(findings.v) |-> JStr(CharAt(findings.v, n - 1))]

\* AICodeReviewer._create_fallback_review
_create_fallback_review(response_text) ==
    << [severity |-> JStr("info"),
        category |-> JStr("system"),
        file |-> JStr("unknown"),
        line_start |-> JInt(1),
        line_end |-> JInt(1),
        message |-> JStr("AI model returned malformed response - please try again or switch models"),
        suggestion |-> JStr("Consider using a different AI model or reducing diff complexity"),
        code_snippet |-> JStr(""),
        fixed_code |-> JStr(""),
        impact |-> JStr("Unable to analyze code due to parsing issues"),
        confidence |-> JStr("low")] >>

\* a faulty loop that drops the items it cannot build a review from, one
\* by one
BuildReviewsOfComplete(findings) ==
    IF Iterable(findings)
    THEN LET complete == SelectSeq(Iterated(findings), Subscriptable)
         IN  [n \in 1..Len(complete) |-> CodeReview(complete[n])]
    ELSE <<>>

\* _parse_review_response, "for finding in findings: review = CodeReview(...)"
BuildReviews(findings) ==
    IF /\ Iterable(findings)
       /\ \A n \in 1..Len(Iterated(findings)) : Subscriptable(Iterated(findings)[n])
    THEN [n \in 1..Len(Iterated(findings)) |-> CodeReview(Iterated(findings)[n])]
    ELSE \* except Exception
         <<>>

\* AICodeReviewer._parse_review_response
_parse_review_response(response_text) ==
    Only({ Only({ IF ~findings.ok
                  THEN \* except json.JSONDecodeError
                       LET fallback_reviews == _create_fallback_review(cleaned) IN
                       IF fallback_reviews # <<>> THEN fallback_reviews ELSE <<>>
                  ELSE BuildReviews(findings.val)
                  : findings \in {json_loads(cleaned)} })
           : cleaned \in {CleanResponse(response_text)} })

-----------------------------------------------------------------------------
(* The review task: AICodeReviewer.review_diff, which awaits               *)
(* MultiProviderReviewer.review_code, which awaits _review_single_chunk    *)
(* for the diff or for each of its chunks, which awaits complete() of one  *)
(* provider after the other.  complete() of a provider raises or returns   *)
(* a text, from call to call.                                              *)

max_safe_tokens == 80000
extremely_large_tokens == 200000
max_files == 15

ProviderIds == {"claude", "openai", "local"}

\* a fallback list given to the constructor has at most MaxFallbacks entries
MaxFallbacks == 1

DefaultFallbacks == <<"openai", "local", "openrouter">>

RECURSIVE ListsUpTo(_, _)
ListsUpTo(S, n) ==
    IF n = 0 THEN {<<>>}
    ELSE LET shorter == ListsUpTo(S, n - 1) IN
         shorter \cup {Append(l, x) : l \in {m \in shorter : Len(m) = n - 1}, x \in S}

FindingA ==
    "{\"severity\":\"critical\",\"category\":\"security\",\"file\":\"a.py\","
    \o "\"line_start\":1,\"line_end\":2,\"message\":\"x\"}"

FindingB ==
    "{\"severity\":\"info\",\"category\":\"style\",\"file\":\"b.py\","
    \o "\"line_start\":3,\"line_end\":3,\"message\":\"y\"}"

\* the texts complete() returns: a fenced array of one finding, a bare
\* array of another finding, and prose that holds no JSON
ReplyFenced == Fence \o "json\n[" \o FindingA \o "]\n" \o Fence
ReplyBare == "[" \o FindingB \o "]"
ReplyProse == "no json here"

Replies == {ReplyFenced, ReplyBare, ReplyProse}

\* a file section of a diff: its header and one line of content, size
\* characters long
Section(path, size) ==
    << Line("diff --git a/" \o path \o " b/" \o path, 0), Line("+", size - 1) >>

Sections(paths, size) ==
    LET section(k) == Section(paths[k], size) IN CatSeq(section, 1, Len(paths))

FifteenPaths ==
    << "f01.py", "f02.py", "f03.py", "f04.py", "f05.py", "f06.py", "f07.py",
       "f08.py", "f09.py", "f10.py", "f11.py", "f12.py", "f13.py", "f14.py",
       "f15.py" >>

\* the diffs under review: one far below the safe threshold and one of
\* exactly 80000 estimated tokens; one above the threshold (two chunks); two
\* above the extremely-large threshold, filtered to a diff below the safe
\* threshold and to one above it (two chunks)
Diffs ==
    { Section("auth.py", 40) \o Section("README.md", 20),
      Section("auth.py", 319972),
      Section("auth.py", 300000) \o Section("docs/guide.md", 300000),
      Section("auth.py", 500000) \o Section("db.py", 400000)
          \o Sections(FifteenPaths, 30),
      Section("auth.py", 500000) \o Sections(FifteenPaths, 30)
          \o Section("zz.py", 165000) \o << Line("+", 164999) >> }

\* the outcome of an awaited call: none yet, a returned text, a raised
\* exception; for review_diff, the returned list of reviews
NoResult == [kind |-> "none"]
Returned(text) == [kind |-> "returned", text |-> text]
Raised(exc) == [kind |-> "raised", exc |-> exc]
ReturnedReviews(reviews) == [kind |-> "returned", reviews |-> reviews]

\* MultiProviderReviewer.__init__: the fallback list of the reviewer
InitFallbacks(given) == IF given = <<>> THEN DefaultFallbacks ELSE given

Init ==
    /\ providers \in SUBSET ProviderIds
    /\ primary_provider \in ProviderIds
    /\ \E given \in ListsUpTo(ProviderIds, MaxFallbacks) :
           fallback_providers = InitFallbacks(given)
    /\ diff_content \in Diffs
    /\ pc = "start"
    /\ work = <<>>
    /\ chunks = <<>>
    /\ ci = 0
    /\ fi = 0
    /\ prompt = <<>>
    /\ attempts = <<>>
    /\ chunk_result = NoResult
    /\ all_findings = <<>>
    /\ done_chunks = <<>>
    /\ code_result = NoResult
    /\ diff_result = NoResult
    /\ fin = 0
    /\ fout = 0
    /\ NoLimiter

config == <<providers, primary_provider, fallback_providers, diff_content>>
pure == <<fin, fout>>

\* review_code, "For extremely large diffs, filter to most important files"
FilteredDiff(diff) ==
    IF _estimate_tokens(diff) > extremely_large_tokens
    THEN _filter_important_files(diff, max_files)
    ELSE diff

\* a faulty review_code that chunks a diff of exactly max_safe_tokens
NeedsChunkingAtThreshold(diff) == _estimate_tokens(diff) >= max_safe_tokens

\* review_code: the chunked path is taken
NeedsChunking(diff) == _estimate_tokens(diff) > max_safe_tokens

\* review_code: the chunks of the chunked path (none on the other path)
ChunksOf(diff) ==
    IF NeedsChunking(diff) THEN _chunk_diff(diff, max_safe_tokens) ELSE <<>>

\* review_diff calls review_code, which runs up to its first
\* _review_single_chunk
review_code ==
    /\ pc = "start"
    /\ work' = FilteredDiff(diff_content)
    /\ chunks' = ChunksOf(work')
    /\ IF chunks' # <<>>
       THEN ci' = 1 /\ prompt' = chunks'[1]
       ELSE ci' = 0 /\ prompt' = work'
    /\ all_findings' = <<>>
    /\ pc' = "try_primary"
    /\ UNCHANGED <<limiter, config, pure, fi, attempts, chunk_result, done_chunks,
                   code_result, diff_result>>

\* one call of complete(): the provider and the outcome of the call
Attempt(provider, outcome) == [provider |-> provider, outcome |-> outcome]

\* _review_single_chunk, "Try primary provider first": complete() returns
primary_returns ==
    /\ pc = "try_primary"
    /\ primary_provider \in providers
    /\ \E text \in Replies : chunk_result' = Returned(text)
    /\ attempts' = Append(attempts, Attempt(primary_provider, chunk_result'))
    /\ pc' = "chunk_done"
    /\ UNCHANGED <<limiter, config, pure, work, chunks, ci, fi, prompt, all_findings,
                   done_chunks, code_result, diff_result>>

\* a faulty _review_single_chunk that lets the failure of the primary
\* provider escape, without trying a fallback
primary_raises_to_caller ==
    /\ pc = "try_primary"
    /\ primary_provider \in providers
    /\ attempts' = Append(attempts, Attempt(primary_provider, Raised("Exception")))
    /\ chunk_result' = Raised("Exception")
    /\ pc' = "chunk_done"
    /\ UNCHANGED <<limiter, config, pure, work, chunks, ci, fi, prompt, all_findings,
                   done_chunks, code_result, diff_result>>

\* "Primary provider failed"
primary_raises ==
    /\ pc = "try_primary"
    /\ primary_provider \in providers
    /\ attempts' = Append(attempts, Attempt(primary_provider, Raised("Exception")))
    /\ fi' = 1
    /\ pc' = "try_fallback"
    /\ UNCHANGED <<limiter, config, pure, work, chunks, ci, prompt, chunk_result,
                   all_findings, done_chunks, code_result, diff_result>>

\* the primary provider is not in the registry
primary_skipped ==
    /\ pc = "try_primary"
    /\ primary_provider \notin providers
    /\ fi' = 1
    /\ pc' = "try_fallback"
    /\ UNCHANGED <<limiter, config, pure, work, chunks, ci, prompt, attempts, chunk_result,
                   all_findings, done_chunks, code_result, diff_result>>

\* a faulty _review_single_chunk that keeps the response of a fallback and
\* goes on with the next fallback
fallback_returns_and_continues ==
    /\ pc = "try_fallback"
    /\ fi <= Len(fallback_providers)
    /\ fallback_providers[fi] \in providers
    /\ \E text \in Replies : chunk_result' = Returned(text)
    /\ attempts' = Append(attempts, Attempt(fallback_providers[fi], chunk_result'))
    /\ fi' = fi + 1
    /\ UNCHANGED <<limiter, config, pure, pc, work, chunks, ci, prompt, all_findings,
                   done_chunks, code_result, diff_result>>

\* "Try fallback providers": complete() of the next fallback returns
fallback_returns ==
    /\ pc = "try_fallback"
    /\ fi <= Len(fallback_providers)
    /\ fallback_providers[fi] \in providers
    /\ \E text \in Replies : chunk_result' = Returned(text)
    /\ attempts' = Append(attempts, Attempt(fallback_providers[fi], chunk_result'))
    /\ pc' = "chunk_done"
    /\ UNCHANGED <<limiter, config, pure, work, chunks, ci, fi, prompt, all_findings,
                   done_chunks, code_result, diff_result>>

\* "Fallback provider failed"
fallback_raises ==
    /\ pc = "try_fallback"
    /\ fi <= Len(fallback_providers)
    /\ fallback_providers[fi] \in providers
    /\ attempts' = Append(attempts, Attempt(fallback_providers[fi], Raised("Exception")))
    /\ fi' = fi + 1
    /\ UNCHANGED <<limiter, config, pure, pc, work, chunks, ci, prompt, chunk_result,
                   all_findings, done_chunks, code_result, diff_result>>

\* the next fallback is not in the registry
fallback_skipped ==
    /\ pc = "try_fallback"
    /\ fi <= Len(fallback_providers)
    /\ fallback_providers[fi] \notin providers
    /\ fi' = fi + 1
    /\ UNCHANGED <<limiter, config, pure, pc, work, chunks, ci, prompt, attempts,
                   chunk_result, all_findings, done_chunks, code_result, diff_result>>

\* a faulty _review_single_chunk that returns an empty array when every
\* provider failed
all_failed_returns_empty ==
    /\ pc = "try_fallback"
    /\ fi > Len(fallback_providers)
    /\ chunk_result' = Returned("[]")
    /\ pc' = "chunk_done"
    /\ UNCHANGED <<limiter, config, pure, work, chunks, ci, fi, prompt, attempts,
                   all_findings, done_chunks, code_result, diff_result>>

\* raise ProviderException("All AI providers failed")
all_failed ==
    /\ pc = "try_fallback"
    /\ fi > Len(fallback_providers)
    /\ chunk_result' = Raised("ProviderException")
    /\ pc' = "chunk_done"
    /\ UNCHANGED <<limiter, config, pure, work, chunks, ci, fi, prompt, attempts,
                   all_findings, done_chunks, code_result, diff_result>>

\* a faulty review_code that puts the findings of a chunk in front
ExtendAtFront(findings, chunk_findings) == chunk_findings \o findings

\* all_findings.extend(chunk_findings)
Extend(findings, chunk_findings) == findings \o chunk_findings

\* review_code, the body of "for i, chunk in enumerate(chunks, 1)" after the
\* await: the findings of the chunk are added, or the chunk is skipped
FindingsAfter(findings, result) ==
    IF result.kind = "returned"
    THEN Extend(findings, _parse_chunk_result(result.text))
    ELSE findings

\* review_code after its loop: "Combine results into final JSON"
Combined(findings) == Returned(json_dumps(JList(findings), 2))

\* a faulty review_code without the try/except around a chunk: the failure
\* of a chunk ends the review
chunk_finished_or_aborts ==
    /\ pc = "chunk_done"
    /\ chunks # <<>>
    /\ all_findings' = FindingsAfter(all_findings, chunk_result)
    /\ done_chunks' = Append(done_chunks, chunk_result)
    /\ chunk_result' = NoResult
    /\ attempts' = <<>>
    /\ IF chunk_result.kind = "raised"
       THEN /\ code_result' = chunk_result
            /\ pc' = "code_done"
            /\ UNCHANGED <<ci, prompt>>
       ELSE IF ci < Len(chunks)
       THEN /\ ci' = ci + 1
            /\ prompt' = chunks[ci + 1]
            /\ pc' = "try_primary"
            /\ UNCHANGED code_result
       ELSE /\ code_result' = Combined(all_findings')
            /\ pc' = "code_done"
            /\ UNCHANGED <<ci, prompt>>
    /\ UNCHANGED <<limiter, config, pure, work, chunks, fi, diff_result>>

\* review_code, chunked path: a chunk is finished; the next one is reviewed,
\* or the combined findings are returned
chunk_finished ==
    /\ pc = "chunk_done"
    /\ chunks # <<>>
    /\ all_findings' = FindingsAfter(all_findings, chunk_result)
    /\ done_chunks' = Append(done_chunks, chunk_result)
    /\ chunk_result' = NoResult
    /\ attempts' = <<>>
    /\ IF ci < Len(chunks)
       THEN /\ ci' = ci + 1
            /\ prompt' = chunks[ci + 1]
            /\ pc' = "try_primary"
            /\ UNCHANGED code_result
       ELSE /\ code_result' = Combined(all_findings')
            /\ pc' = "code_done"
            /\ UNCHANGED <<ci, prompt>>
    /\ UNCHANGED <<limiter, config, pure, work, chunks, fi, diff_result>>

\* review_code, "Single review for small diffs": the outcome of
\* _review_single_chunk is the outcome of review_code
single_finished ==
    /\ pc = "chunk_done"
    /\ chunks = <<>>
    /\ code_result' = chunk_result
    /\ done_chunks' = Append(done_chunks, chunk_result)
    /\ chunk_result' = NoResult
    /\ pc' = "code_done"
    /\ UNCHANGED <<limiter, config, pure, work, chunks, ci, fi, prompt, attempts,
                   all_findings, diff_result>>

\* a faulty review_diff without its "except Exception": the exception of
\* review_code escapes
ReviewDiffUncaught(result) ==
    IF result.kind = "returned"
    THEN ReturnedReviews(_parse_review_response(result.text))
    ELSE result

\* review_diff, from "response = await self.reviewer.review_code(...)": the
\* response is parsed and the reviews are returned; "except Exception"
\* returns []
ReviewDiff(result) ==
    IF result.kind = "returned"
    THEN ReturnedReviews(_parse_review_response(result.text))
    ELSE ReturnedReviews(<<>>)

review_diff_returns ==
    /\ pc = "code_done"
    /\ diff_result' = ReviewDiff(code_result)
    /\ pc' = "done"
    /\ UNCHANGED <<limiter, config, pure, work, chunks, ci, fi, prompt, attempts,
                   chunk_result, all_findings, done_chunks, code_result>>

Next ==
    \/ review_code
    \/ primary_returns
    \/ primary_raises
    \/ primary_skipped
    \/ fallback_returns
    \/ fallback_raises
    \/ fallback_skipped
    \/ all_failed
    \/ chunk_finished
    \/ single_finished
    \/ review_diff_returns

Spec == Init /\ [][Next]_vars

-----------------------------------------------------------------------------
(* The pure functions of the engine, each applied to inputs drawn from a   *)
(* bounded set: fin is the input of the call, fout its result.  No review  *)
(* task runs in these specifications.                                      *)

machine == <<providers, primary_provider, fallback_providers, diff_content,
             pc, work, chunks, ci, fi, prompt, attempts, chunk_result,
             all_findings, done_chunks, code_result, diff_result>>

Idle ==
    /\ providers = {}
    /\ primary_provider = "claude"
    /\ fallback_providers = DefaultFallbacks
    /\ diff_content = <<>>
    /\ pc = "idle"
    /\ work = <<>>
    /\ chunks = <<>>
    /\ ci = 0
    /\ fi = 0
    /\ prompt = <<>>
    /\ attempts = <<>>
    /\ chunk_result = NoResult
    /\ all_findings = <<>>
    /\ done_chunks = <<>>
    /\ code_result = NoResult
    /\ diff_result = NoResult

\* the result of a call of a pure function
Result(value) == [kind |-> "returned", value |-> value]

\* the lists over S of lo to hi entries
ListsFromTo(S, lo, hi) == {l \in ListsUpTo(S, hi) : Len(l) >= lo}

\* the lists over S of 1 to n entries, no entry twice
DistinctLists(S, n) ==
    {l \in ListsFromTo(S, 1, n) : \A i, j \in 1..Len(l) : l[i] = l[j] => i = j}

\* _chunk_diff: diffs of up to MaxLines lines, budgets of 2 and 7 tokens
MaxLines == 4

ChunkLines ==
    { Line("diff --git a/a.py b/a.py", 0), Line("+", 2), Line("+", 3), Line("+", 11),
      Line("", 0) }

ChunkBudgets == {2, 7}

ChunkInputs ==
    { [diff |-> d, max_chunk_tokens |-> b] :
          d \in ListsFromTo(ChunkLines, 1, MaxLines), b \in ChunkBudgets }

InitChunk == Idle /\ NoLimiter /\ fin \in ChunkInputs /\ fout = NoResult

chunk_diff_returns ==
    /\ fout = NoResult
    /\ fout' = Result(_chunk_diff(fin.diff, fin.max_chunk_tokens))
    /\ UNCHANGED <<limiter, machine, fin>>

NextChunk == chunk_diff_returns

SpecChunk == InitChunk /\ [][NextChunk]_vars

\* _filter_important_files: diffs of up to MaxSections file sections, each
\* file once, max_files of 1 and 2
MaxSections == 3

FilterPool ==
    { [path |-> "auth.py", size |-> 50], [path |-> "README.md", size |-> 10],
      [path |-> "zzz.py", size |-> 5], [path |-> "qq.py", size |-> 30],
      [path |-> "tests/test_auth.py", size |-> 70] }

FilterLimits == {1, 2}

FilterInputs ==
    { [files |-> l, max_files |-> m] :
          l \in DistinctLists(FilterPool, MaxSections), m \in FilterLimits }

\* the diff that holds the sections of the files, in their order
DiffOfFiles(files) ==
    LET section(k) == Section(files[k].path, files[k].size)
    IN  CatSeq(section, 1, Len(files))

InitFilter == Idle /\ NoLimiter /\ fin \in FilterInputs /\ fout = NoResult

filter_important_files_returns ==
    /\ fout = NoResult
    /\ fout' = Result(_filter_important_files(DiffOfFiles(fin.files), fin.max_files))
    /\ UNCHANGED <<limiter, machine, fin>>

NextFilter == filter_important_files_returns

SpecFilter == InitFilter /\ [][NextFilter]_vars

\* _parse_review_response: replies that hold a well-formed array of up to
\* MaxRecords finding records, bare, fenced, or within prose
MaxRecords == 2

Finding(severity, category, file, line_start, line_end, message, optional) ==
    JDict(<< [k |-> "severity", x |-> JStr(severity)],
             [k |-> "category", x |-> JStr(category)],
             [k |-> "file", x |-> JStr(file)],
             [k |-> "line_start", x |-> JInt(line_start)],
             [k |-> "line_end", x |-> JInt(line_end)],
             [k |-> "message", x |-> JStr(message)] >> \o optional)

RecordPool ==
    { Finding("critical", "security", "a.py", 1, 2, "x", <<>>),
      Finding("minor", "style", "b.py", 10, 10, "unused import",
              << [k |-> "suggestion", x |-> JStr("remove it")],
                 [k |-> "confidence", x |-> JStr("high")] >>),
      Finding("major", "bug", "c.py", 7, 9, "trailing comma in [1,2,]", <<>>),
      Finding("info", "docs", "d.py", 3, 4, "say \"why\"",
              << [k |-> "impact", x |-> None] >>) }

Wrappers == {"bare", "json fence", "fence", "prose", "prose and fence"}

\* a reply that holds the array text
Wrapped(text, wrapper) ==
    CASE wrapper = "bare" -> text
      [] wrapper = "json fence" -> Fence \o "json\n" \o text \o "\n" \o Fence
      [] wrapper = "fence" -> Fence \o "\n" \o text \o "\n" \o Fence
      [] wrapper = "prose" -> "Here is my review:\n" \o text \o "\nHope this helps."
      [] wrapper = "prose and fence" ->
            "Here is my review:\n" \o Fence \o "json\n" \o text \o "\n" \o Fence
            \o "\nHope this helps."

ParseInputs ==
    { [records |-> l, wrapper |-> w] :
          l \in ListsUpTo(RecordPool, MaxRecords), w \in Wrappers }

\* the reply of the input: the array as json.dumps(records, indent=2) writes it
ReplyOf(input) == Wrapped(json_dumps(JList(input.records), 2), input.wrapper)

InitParse == Idle /\ NoLimiter /\ fin \in ParseInputs /\ fout = NoResult

parse_review_response_returns ==
    /\ fout = NoResult
    /\ fout' = Result(_parse_review_response(ReplyOf(fin)))
    /\ UNCHANGED <<limiter, machine, fin>>

NextParse == parse_review_response_returns

SpecParse == InitParse /\ [][NextParse]_vars

\* _parse_review_response: arrays of up to MaxRecords records, complete or
\* lacking one of the required fields
Without(finding, key) ==
    JDict(SelectSeq(finding.v, LAMBDA item : item.k # key))

RecordsOrPartRecords ==
    { Finding("critical", "security", "a.py", 1, 2, "x", <<>>),
      Finding("info", "style", "b.py", 3, 3, "y",
              << [k |-> "suggestion", x |-> JStr("z")] >>) }
    \cup { Without(Finding("major", "bug", "c.py", 7, 9, "m", <<>>), RequiredFields[k])
           : k \in 1..Len(RequiredFields) }

RecordInputs ==
    { [records |-> l, wrapper |-> w] :
          l \in ListsUpTo(RecordsOrPartRecords, MaxRecords), w \in {"bare", "json fence"} }

InitRecords == Idle /\ NoLimiter /\ fin \in RecordInputs /\ fout = NoResult

NextRecords == parse_review_response_returns

SpecRecords == InitRecords /\ [][NextRecords]_vars

\* _parse_review_response on any backend reply: texts that are no JSON,
\* JSON that is no array of finding records, records that lack a required
\* field or hold values outside the Finding contract, and well-formed
\* arrays; each bare, fenced, or within prose
RecordNoMessage ==
    "{\"severity\":\"major\",\"category\":\"bug\",\"file\":\"c.py\","
    \o "\"line_start\":1,\"line_end\":2}"

RecordBlocker ==
    "{\"severity\":\"blocker\",\"category\":\"bug\",\"file\":\"c.py\","
    \o "\"line_start\":1,\"line_end\":2,\"message\":\"m\"}"

RecordBackwards ==
    "{\"severity\":\"minor\",\"category\":\"style\",\"file\":\"c.py\","
    \o "\"line_start\":9,\"line_end\":3,\"message\":\"m\"}"

ReplyBodies ==
    { "no json here at all", "", "{\"a\":1}", "[1]", "42", "null", "[\"x\"]", "[]",
      "[" \o FindingA,
      "[" \o RecordNoMessage \o "]",
      "[" \o FindingA \o "]",
      "[" \o FindingA \o "," \o FindingB \o "]",
      "[" \o RecordBlocker \o "]",
      "[" \o RecordBackwards \o "]" }

ReplyInputs == { [body |-> b, wrapper |-> w] : b \in ReplyBodies, w \in Wrappers }

ReplyText(input) == Wrapped(input.body, input.wrapper)

InitReply == Idle /\ NoLimiter /\ fin \in ReplyInputs /\ fout = NoResult

reply_parsed ==
    /\ fout = NoResult
    /\ fout' = Result(_parse_review_response(ReplyText(fin)))
    /\ UNCHANGED <<limiter, machine, fin>>

NextReply == reply_parsed

SpecReply == InitReply /\ [][NextReply]_vars

-----------------------------------------------------------------------------
(* GitIntegration: the diff parser and the file reads it relies on.  Here  *)
(* a diff is the list of its lines, each a TLA+ string.                    *)

\* the outcome of a call that returns a value or raises
Value(v) == [kind |-> "returned", value |-> v]

\* get_file_content: "git show" prints the file, or fails with
\* CalledProcessError, or raises something else (no git, undecodable
\* output); after CalledProcessError the working-tree file is read, or is
\* not found (the content is then ""), or the read raises something else
\* (undecodable bytes, a directory, no permission)
get_file_content(file) ==
    CASE file.git = "printed" -> Value(file.content)
      [] file.git = "raises" -> Raised("Exception")
      [] file.git = "CalledProcessError" ->
            CASE file.disk = "read" -> Value(file.content)
              [] file.disk = "FileNotFoundError" -> Value("")
              [] file.disk = "raises" -> Raised("Exception")

\* content.split('\n')
SplitLines(content) ==
    LET at == {i \in 0..(Len(content) - 1) : CharAt(content, i) = "\n"}
        n == Cardinality(at)
        nth == [k \in 1..n |-> CHOOSE i \in at : Cardinality({j \in at : j < i}) = k - 1]
    IN  [k \in 1..(n + 1) |->
            Slice(content, IF k = 1 THEN 0 ELSE nth[k - 1] + 1,
                           IF k = n + 1 THEN Len(content) ELSE nth[k])]

\* an index of a slice of a list of n entries: a negative index counts from
\* the end, and an index is clipped to 0..n
SliceIndex(idx, n) == IF idx < 0 THEN Max(0, n + idx) ELSE Min(idx, n)

\* lines[start_idx:end_idx]
ListSlice(lines, start_idx, end_idx) ==
    SubSeq(lines, SliceIndex(start_idx, Len(lines)) + 1, SliceIndex(end_idx, Len(lines)))

\* GitIntegration._get_context_lines
_get_context_lines(file, start_line, end_line) ==
    LET file_content == get_file_content(file) IN
    IF file_content.kind = "raised" THEN <<>>
    ELSE LET lines == SplitLines(file_content.value)
             start_idx == Max(0, start_line - 1)
             end_idx == Min(Len(lines), end_line)
         IN  ListSlice(lines, start_idx, end_idx)

\* GitIntegration._create_hunk_with_context
_create_hunk_with_context(file_path, hunk_info, hunk_lines, file) ==
    [file_path |-> file_path,
     old_start |-> hunk_info[1],
     old_count |-> hunk_info[2],
     new_start |-> hunk_info[3],
     new_count |-> hunk_info[4],
     lines |-> hunk_lines,
     context_before |->
         _get_context_lines(file, Max(1, hunk_info[3] - 10), hunk_info[3] - 1),
     context_after |->
         _get_context_lines(file, hunk_info[3] + hunk_info[4],
                            hunk_info[3] + hunk_info[4] + 10)]

NoMatch == [matched |-> FALSE]

\* re.search(r'b/(.+)$', line): group 1 of the leftmost match
SearchPath(line) ==
    LET at(i) == Slice(line, i, i + 2) = "b/"
        i == Lowest(0, Len(line) - 3, at)
    IN  IF Len(line) >= 3 /\ i <= Len(line) - 3
        THEN [matched |-> TRUE, group1 |-> Slice(line, i + 2, Len(line))]
        ELSE NoMatch

\* the end of the run of digits that starts at i (i itself if none does)
DigitsEnd(s, i) ==
    LET stops == {j \in i..(Len(s) - 1) : ~IsDigit(CharAt(s, j))}
    IN  IF stops = {} THEN Max(i, Len(s)) ELSE CHOOSE j \in stops : \A k \in stops : j <= k

\* r'(\d+)(?:,(\d+))?' at i: the two groups ("" for the one that did not
\* take part) and the end of the match
MatchRange(s, i) ==
    Only({ IF e1 = i THEN NoMatch
           ELSE Only({ IF Slice(s, e1, e1 + 1) = "," /\ e2 > e1 + 1
                       THEN [matched |-> TRUE, start |-> Slice(s, i, e1),
                             count |-> Slice(s, e1 + 1, e2), end |-> e2]
                       ELSE [matched |-> TRUE, start |-> Slice(s, i, e1),
                             count |-> "", end |-> e1]
                       : e2 \in {DigitsEnd(s, e1 + 1)} })
           : e1 \in {DigitsEnd(s, i)} })

\* r' \+(\d+)(?:,(\d+))? @@' at the end of the old range
MatchNewRange(line, old) ==
    IF Slice(line, old.end, old.end + 2) # " +" THEN NoMatch
    ELSE Only({ IF ~new.matched \/ Slice(line, new.end, new.end + 3) # " @@"
                THEN NoMatch
                ELSE [matched |-> TRUE, group1 |-> old.start, group2 |-> old.count,
                      group3 |-> new.start, group4 |-> new.count]
                : new \in {MatchRange(line, old.end + 2)} })

\* r'@@ -(\d+)(?:,(\d+))? \+(\d+)(?:,(\d+))? @@' at p
MatchHeaderAt(line, p) ==
    IF Slice(line, p, p + 4) # "@@ -" THEN NoMatch
    ELSE Only({ IF ~old.matched THEN NoMatch ELSE MatchNewRange(line, old)
                : old \in {MatchRange(line, p + 4)} })

\* re.search of the hunk-header pattern: the leftmost match
SearchHeader(line) ==
    LET at(p) == MatchHeaderAt(line, p).matched IN
    Only({ IF p <= Len(line) - 1 THEN MatchHeaderAt(line, p) ELSE NoMatch
           : p \in {Lowest(0, Len(line) - 1, at)} })

\* int(text) raises ValueError for more digits than CPython's limit on the
\* conversion of a str to an int (sys.int_info.default_max_str_digits)
int_max_str_digits == 4300

IntRaises(text) == Len(text) > int_max_str_digits

\* int(text), for a text of digits within the limit
IntOf(text) ==
    LET value[k \in 0..Len(text)] ==
            IF k = 0 THEN 0 ELSE 10 * value[k - 1] + DigitValue(CharAt(text, k - 1))
    IN  value[Len(text)]

\* int(match.group(n) or 1)
IntOr1(text) == IF text = "" THEN 1 ELSE IntOf(text)

\* parse_diff_hunks, "hunks.append(GitIntegration._create_hunk_with_context(...))"
\* when a hunk of a file is in progress
Flushed(st, file) ==
    IF st.has_hunk /\ st.has_file
    THEN Append(st.hunks, _create_hunk_with_context(st.current_file, st.current_hunk,
                                                    st.hunk_lines, file))
    ELSE st.hunks

\* parse_diff_hunks, "New file header"
FileHeaderStep(st, match, file) ==
    [st EXCEPT !.hunks = Flushed(st, file),
               !.has_hunk = FALSE,
               !.hunk_lines = <<>>,
               !.shared = {},
               !.has_file = match.matched,
               !.current_file = IF match.matched THEN match.group1 ELSE ""]

\* a faulty hunk-header step that keeps the lines gathered so far
HunkHeaderStepKeepsLines(st, match, flushed) ==
    IF ~match.matched THEN [st EXCEPT !.hunks = flushed]
    ELSE IF \/ IntRaises(match.group1) \/ IntRaises(match.group2)
            \/ IntRaises(match.group3) \/ IntRaises(match.group4)
    THEN [st EXCEPT !.hunks = flushed, !.raised = TRUE]
    ELSE [st EXCEPT !.hunks = flushed,
                    !.has_hunk = TRUE,
                    !.current_hunk = << IntOf(match.group1), IntOr1(match.group2),
                                        IntOf(match.group3), IntOr1(match.group4) >>]

\* parse_diff_hunks, "Hunk header (@@)"; flushed are the hunks after "if
\* current_hunk: hunks.append(...)"
HunkHeaderStep(st, match, flushed) ==
    IF ~match.matched
    THEN \* hunk_lines stays the list that the hunk just appended holds
         [st EXCEPT !.hunks = flushed,
                    !.shared = IF st.has_hunk THEN @ \cup {Len(flushed)} ELSE @]
    ELSE IF \/ IntRaises(match.group1) \/ IntRaises(match.group2)
            \/ IntRaises(match.group3) \/ IntRaises(match.group4)
    THEN [st EXCEPT !.hunks = flushed, !.raised = TRUE]
    ELSE [st EXCEPT !.hunks = flushed,
                    !.has_hunk = TRUE,
                    !.current_hunk = << IntOf(match.group1), IntOr1(match.group2),
                                        IntOf(match.group3), IntOr1(match.group4) >>,
                    !.hunk_lines = <<>>,
                    !.shared = {}]

\* parse_diff_hunks: the body of "for line in diff_content.split('\n')"
HunkStep(st, line, file) ==
    IF st.raised THEN st
    ELSE IF startswith(line, "diff --git")
    THEN Only({ FileHeaderStep(st, match, file) : match \in {SearchPath(line)} })
    ELSE IF startswith(line, "@@") /\ st.has_file
    THEN Only({ HunkHeaderStep(st, bound[1], bound[2])
                : bound \in {<< SearchHeader(line),
                                IF st.has_hunk THEN Flushed(st, file) ELSE st.hunks >>} })
    ELSE IF st.has_hunk /\ st.has_file
    THEN IF startswith(line, " ") \/ startswith(line, "+") \/ startswith(line, "-")
         THEN \* hunk_lines.append(line): the list, and so the lines of the
              \* hunks that hold this very list
              [st EXCEPT !.hunk_lines = Append(@, line),
                         !.hunks = [n \in 1..Len(st.hunks) |->
                                       IF n \in st.shared
                                       THEN [st.hunks[n] EXCEPT !.lines = Append(@, line)]
                                       ELSE st.hunks[n]]]
         ELSE st
    ELSE st

\* GitIntegration.parse_diff_hunks, applied to the lines of the diff; file
\* is what the reads of the changed files yield
parse_diff_hunks(diff_lines, file) ==
    LET step(st, line) == HunkStep(st, line, file)
        st == Loop(step, [hunks |-> <<>>, has_file |-> FALSE, current_file |-> "",
                          has_hunk |-> FALSE, current_hunk |-> <<>>,
                          hunk_lines |-> <<>>, shared |-> {}, raised |-> FALSE],
                   diff_lines, 1, Len(diff_lines))
    IN  IF st.raised THEN Raised("ValueError") ELSE Value(Flushed(st, file))

\* parse_diff_hunks: diffs of up to MaxDiffLines lines; the reads of the
\* files find a file of three lines, or no file, or fail
MaxDiffLines == 4

\* s ten times
Ten(s) == s \o s \o s \o s \o s \o s \o s \o s \o s \o s

\* a number of int_max_str_digits + 1 digits
LongNumber == Ten(Ten(Ten("1111"))) \o Ten(Ten("111")) \o "1"

HunkLinePool ==
    { "diff --git a/lib/x.py b/lib/x.py", "diff --git a/y.py b/y.py",
      "@@ -1,0 +3 @@ def f():", "@@ -5 +2 @@", "@@ bad @@",
      "--- a/y.py", "+a", "-def foo(x):", " c", "" }

\* diffs with a hunk header whose numbers are longer than int() converts
LongHeaderDiffs ==
    { << "@@ -" \o LongNumber \o " +1 @@" >>,
      << "diff --git a/y.py b/y.py", "@@ -" \o LongNumber \o " +1 @@", "+a" >>,
      << "diff --git a/y.py b/y.py", "@@ -5 +2 @@", "+a",
         "@@ -1," \o LongNumber \o " +1 @@" >> }

\* well-formed diffs: one or two file sections, each of one or two hunks
HunkPool ==
    { << "@@ -1,0 +3 @@ def f():", "+a" >>,
      << "@@ -5 +2 @@", " c" >>,
      << "@@ -7,2 +9,2 @@", " c", "-def foo(x):", "+a" >> }

HunksOfFile == HunkPool \cup { h1 \o h2 : h1 \in HunkPool, h2 \in HunkPool }

FileX == << "diff --git a/lib/x.py b/lib/x.py", "--- a/lib/x.py", "+++ b/lib/x.py" >>

FileY == << "diff --git a/y.py b/y.py", "index 1..2 100644", "--- a/y.py", "+++ b/y.py" >>

ValidDiffs ==
    { first \o second \o tail :
          first \in { f \o hs : f \in {FileX, FileY}, hs \in HunksOfFile },
          second \in { <<>> } \cup { FileX \o hs : hs \in HunkPool },
          tail \in { <<>>, << "" >> } }

FileReads ==
    { [git |-> "printed", disk |-> "read", content |-> "one\ntwo\nthree"],
      [git |-> "CalledProcessError", disk |-> "FileNotFoundError", content |-> ""],
      [git |-> "CalledProcessError", disk |-> "raises", content |-> ""] }

HunkInputs ==
    { [diff |-> d, file |-> f] :
          d \in ListsFromTo(HunkLinePool, 1, MaxDiffLines) \cup LongHeaderDiffs
                   \cup ValidDiffs,
          f \in FileReads }

InitHunks == Idle /\ NoLimiter /\ fin \in HunkInputs /\ fout = NoResult

parse_diff_hunks_returns ==
    /\ fout = NoResult
    /\ fout' = parse_diff_hunks(fin.diff, fin.file)
    /\ UNCHANGED <<limiter, machine, fin>>

NextHunks == parse_diff_hunks_returns

SpecHunks == InitHunks /\ [][NextHunks]_vars

\* _create_hunk_with_context: hunks of a new range that starts at line 0 to
\* MaxNewStart and counts 0 to MaxNewCount lines, in files of no line, of a
\* few lines and of MaxFileLines lines, and in a file that cannot be read
MaxNewStart == 14
MaxNewCount == 2
MaxFileLines == 26

\* the text of a file of n lines, "l1" to "l<n>"
RECURSIVE NumberedLines(_)
NumberedLines(n) ==
    IF n = 0 THEN ""
    ELSE IF n = 1 THEN "l1"
    ELSE NumberedLines(n - 1) \o "\nl" \o IntText(n)

HunkContextInputs ==
    [ new_start : 0..MaxNewStart,
      new_count : 0..MaxNewCount,
      file : { [git |-> "printed", disk |-> "read", content |-> NumberedLines(n)]
               : n \in {0, 3, MaxFileLines} }
             \cup { [git |-> "CalledProcessError", disk |-> "raises", content |-> ""] } ]

InitHunkContext == Idle /\ NoLimiter /\ fin \in HunkContextInputs /\ fout = NoResult

hunk_with_context_created ==
    /\ fout = NoResult
    /\ fout' = Value(_create_hunk_with_context("y.py", <<1, 1, fin.new_start, fin.new_count>>,
                                               <<"+a">>, fin.file))
    /\ UNCHANGED <<limiter, machine, fin>>

NextHunkContext == hunk_with_context_created

SpecHunkContext == InitHunkContext /\ [][NextHunkContext]_vars

\* Path(file_path).suffix: the part of the last path component from its
\* last dot on, if that dot is neither its first nor its last character
Suffix(file_path) ==
    LET name == Slice(file_path, rfind(file_path, "/") + 1, Len(file_path))
        i == rfind(name, ".")
    IN  IF 0 < i /\ i < Len(name) - 1 THEN Slice(name, i, Len(name)) ELSE ""

language_map ==
    << <<".py", "python">>, <<".js", "javascript">>, <<".ts", "typescript">>,
       <<".tsx", "typescript">>, <<".jsx", "javascript">>, <<".java", "java">>,
       <<".go", "go">>, <<".rs", "rust">>, <<".cpp", "cpp">>, <<".c", "c">>,
       <<".cs", "csharp">>, <<".php", "php">>, <<".rb", "ruby">>,
       <<".swift", "swift">>, <<".kt", "kotlin">>, <<".scala", "scala">>,
       <<".sh", "bash">>, <<".yml", "yaml">>, <<".yaml", "yaml">>,
       <<".json", "json">>, <<".xml", "xml">>, <<".html", "html">>,
       <<".css", "css">>, <<".scss", "scss">>, <<".sql", "sql">> >>

\* GitIntegration._detect_language
_detect_language(file_path) ==
    LET ext == lower(Suffix(file_path))
        hits == {k \in 1..Len(language_map) : language_map[k][1] = ext}
    IN  IF hits = {} THEN "unknown" ELSE language_map[CHOOSE k \in hits : TRUE][2]

\* the languages whose extractors this model holds: python, and those for
\* which _extract_imports, _extract_functions and _extract_classes have no
\* branch (javascript, typescript, java and go are not modelled)
ExtractorLanguages ==
    {"unknown"} \cup ({language_map[k][2] : k \in 1..Len(language_map)}
                         \ {"javascript", "typescript", "java", "go"})

\* lst[:n]
Take(lst, n) == SubSeq(lst, 1, Min(n, Len(lst)))

\* GitIntegration._extract_imports
_extract_imports(content, language) ==
    LET lines == SplitLines(content)
        stripped == [k \in 1..Len(lines) |-> strip(lines[k])]
        is_import(line) == startswith(line, "import ") \/ startswith(line, "from ")
    IN  IF language = "python" THEN Take(SelectSeq(stripped, is_import), 10) ELSE <<>>

\* the characters \w and \s match
WordChars ==
    LET word == "abcdefghijklmnopqrstuvwxyzABCDEFGHIJKLMNOPQRSTUVWXYZ0123456789_"
    IN  {CharAt(word, i) : i \in 0..(Len(word) - 1)}

\* the end of the run of characters of S that starts at i
RunEnd(s, i, S) ==
    LET stops == {j \in i..(Len(s) - 1) : CharAt(s, j) \notin S}
    IN  IF stops = {} THEN Max(i, Len(s)) ELSE CHOOSE j \in stops : \A k \in stops : j <= k

\* r'^\s*keyword\s+(\w+)' (re.MULTILINE) with the keyword at d: whether it
\* matches, group 1, and the end of group 1
MatchDefinition(content, d, keyword) ==
    LET newline(i) == CharAt(content, i) = "\n"
        line_start == Highest(0, d - 1, newline) + 1
        a == d + Len(keyword)
    IN  Only({ [matched |-> /\ Slice(content, d, a) = keyword
                            /\ RunEnd(content, line_start, Whitespace) >= d
                            /\ bc[1] > a /\ bc[2] > bc[1],
                group1 |-> Slice(content, bc[1], bc[2]),
                end |-> bc[2]]
               : bc \in { Only({ <<b, RunEnd(content, b, WordChars)>>
                                 : b \in {RunEnd(content, a, Whitespace)} }) } })

\* the n-th (from 1) of a set of positions
NthPosition(at, n) == CHOOSE d \in at : Cardinality({e \in at : e < d}) = n - 1

\* GitIntegration._extract_functions: for python,
\* re.findall(r'^\s*def\s+(\w+)\s*\(', content, re.MULTILINE)
_extract_functions(content, language) ==
    LET opens(end) == Slice(content, RunEnd(content, end, Whitespace),
                            RunEnd(content, end, Whitespace) + 1) = "("
        at == {d \in 0..(Len(content) - 1) :
                   Only({ match.matched /\ opens(match.end)
                          : match \in {MatchDefinition(content, d, "def")} })}
        functions == [k \in 1..Cardinality(at) |->
                         MatchDefinition(content, NthPosition(at, k), "def").group1]
    IN  IF language = "python" THEN Take(functions, 15) ELSE <<>>

\* GitIntegration._extract_classes: for python,
\* re.findall(r'^\s*class\s+(\w+).*:', content, re.MULTILINE)
_extract_classes(content, language) ==
    LET newline(i) == CharAt(content, i) = "\n"
        colon(end) == \E j \in end..(Lowest(end, Len(content) - 1, newline) - 1) :
                          CharAt(content, j) = ":"
        at == {d \in 0..(Len(content) - 1) :
                   Only({ match.matched /\ colon(match.end)
                          : match \in {MatchDefinition(content, d, "class")} })}
        classes == [k \in 1..Cardinality(at) |->
                       MatchDefinition(content, NthPosition(at, k), "class").group1]
    IN  IF language = "python" THEN Take(classes, 10) ELSE <<>>

\* GitIntegration.get_file_context
get_file_context(file_path, file) ==
    LET content == get_file_content(file) IN
    IF content.kind = "raised"
    THEN \* except Exception
         [file_path |-> file_path, language |-> "unknown", imports |-> <<>>,
          functions |-> <<>>, classes |-> <<>>, total_lines |-> 0]
    ELSE Only({ [file_path |-> file_path,
                 language |-> language,
                 imports |-> _extract_imports(content.value, language),
                 functions |-> _extract_functions(content.value, language),
                 classes |-> _extract_classes(content.value, language),
                 total_lines |-> Len(SplitLines(content.value))]
                : language \in {_detect_language(file_path)} })

\* get_file_context: paths of python files, of files of other languages and
\* of no known language; every outcome of the two reads
ContextPaths == {"x.py", "src/X.PY", "lib.rs", "notes.txt", "Makefile", "a.tar.gz", ".py"}

ContextContents ==
    { "", "x = 1\n",
      "import os\nfrom a import b\n\nclass A(B):\n    def f (self):\n        pass\n"
      \o "def g(x): return x\nclass C\n  undef h(\n" }

ContextInputs ==
    { [file_path |-> p, file |-> [git |-> g, disk |-> d, content |-> c]] :
          p \in ContextPaths, g \in {"printed", "CalledProcessError", "raises"},
          d \in {"read", "FileNotFoundError", "raises"}, c \in ContextContents }

InitContext == Idle /\ NoLimiter /\ fin \in ContextInputs /\ fout = NoResult

get_file_context_returns ==
    /\ fout = NoResult
    /\ fout' = Value(get_file_context(fin.file_path, fin.file))
    /\ UNCHANGED <<limiter, machine, fin>>

NextContext == get_file_context_returns

SpecContext == InitContext /\ [][NextContext]_vars

\* r'\s+\w+\s*\(' at k
MatchNameAndParen(s, k) ==
    Only({ /\ bc[1] > k /\ bc[2] > bc[1]
           /\ Slice(s, RunEnd(s, bc[2], Whitespace), RunEnd(s, bc[2], Whitespace) + 1) = "("
           : bc \in { Only({ <<b, RunEnd(s, b, WordChars)>>
                             : b \in {RunEnd(s, k, Whitespace)} }) } })

\* re.match(r'(def|function|public.*)\s+\w+\s*\(', line_content)
MatchesFunction(line_content) ==
    \/ startswith(line_content, "def") /\ MatchNameAndParen(line_content, 3)
    \/ startswith(line_content, "function") /\ MatchNameAndParen(line_content, 8)
    \/ /\ startswith(line_content, "public")
       /\ \E k \in 6..Len(line_content) : MatchNameAndParen(line_content, k)

\* re.match(r'class\s+\w+', line_content)
MatchesClass(line_content) ==
    /\ startswith(line_content, "class")
    /\ Only({ b > 5 /\ RunEnd(line_content, b, WordChars) > b
              : b \in {RunEnd(line_content, 5, Whitespace)} })

ContainsAny(text, keywords) == \E k \in 1..Len(keywords) : contains(text, keywords[k])

\* f"{what} in {hunk.file_path}:{hunk.new_start}"
BreakingChange(what, hunk) ==
    what \o " in " \o hunk.file_path \o ":" \o IntText(hunk.new_start)

\* the four tests _detect_breaking_changes makes on the content of a line
BreakingChangesOfContent(hunk, line_content) ==
    (IF MatchesFunction(line_content)
     THEN << BreakingChange("Function signature change", hunk) >> ELSE <<>>)
    \o (IF MatchesClass(line_content)
        THEN << BreakingChange("Class definition change", hunk) >> ELSE <<>>)
    \o (IF /\ contains(line_content, "export")
           /\ ContainsAny(line_content, <<"function", "class", "const", "let">>)
        THEN << BreakingChange("Export removal", hunk) >> ELSE <<>>)
    \o (IF ContainsAny(lower(line_content),
                       <<"@app.route", "@router", "app.get", "app.post">>)
        THEN << BreakingChange("API endpoint change", hunk) >> ELSE <<>>)

\* a detector that tests every line of the hunk, whatever its first character
BreakingChangesOfAnyLine(hunk, line) ==
    Only({ BreakingChangesOfContent(hunk, line_content)
           : line_content \in {strip(DropFirst(line, 1))} })

\* _detect_breaking_changes: the entries of one line of the hunk
BreakingChangesOfLine(hunk, line) ==
    IF ~startswith(line, "-") THEN <<>>
    ELSE Only({ BreakingChangesOfContent(hunk, line_content)
                : line_content \in {strip(DropFirst(line, 1))} })

\* GitIntegration._detect_breaking_changes
_detect_breaking_changes(hunk) ==
    LET of(n) == BreakingChangesOfLine(hunk, hunk.lines[n])
    IN  CatSeq(of, 1, Len(hunk.lines))

\* analyze_cross_file_dependencies, "Detect potential breaking changes"
BreakingChangesOf(hunks) ==
    LET of(n) == _detect_breaking_changes(hunks[n]) IN CatSeq(of, 1, Len(hunks))

\* _detect_breaking_changes: hunks of up to MaxHunkLines lines; removed,
\* added and context lines that define functions, classes, exports and
\* routes, and lines that define nothing
MaxHunkLines == 2

RemovedDefinitions ==
    { "-def foo(x):", "-    def bar (self, y):", "-function run() {",
      "-public static void main(String[] args) {" }

BreakingLinePool ==
    RemovedDefinitions
    \cup { "+def foo(x):", " def foo(x):", "+export const a = 1", " @app.route('/')",
           "-class A(B):", "-export function f(a) {", "-@App.Route('/x')",
           "-x = undefined(1)", "-" }

ADiffHunk(file_path, new_start, lines) ==
    [file_path |-> file_path, old_start |-> 1, old_count |-> 1,
     new_start |-> new_start, new_count |-> 1, lines |-> lines,
     context_before |-> <<>>, context_after |-> <<>>]

BreakingInputs ==
    { << ADiffHunk(p, n, l) >> \o rest :
          p \in {"y.py", "x.py b/lib/x.py"}, n \in {0, 12},
          l \in ListsUpTo(BreakingLinePool, MaxHunkLines),
          rest \in { <<>>, << ADiffHunk("z.js", 7, << "+a", "-function run() {" >>) >> } }

InitBreaking == Idle /\ NoLimiter /\ fin \in BreakingInputs /\ fout = NoResult

breaking_changes_detected ==
    /\ fout = NoResult
    /\ fout' = Value(BreakingChangesOf(fin))
    /\ UNCHANGED <<limiter, machine, fin>>

NextBreaking == breaking_changes_detected

SpecBreaking == InitBreaking /\ [][NextBreaking]_vars

\* any(term in f for f in paths for term in terms)
AnyContains(paths, terms) ==
    \E i \in 1..Len(paths) : ContainsAny(paths[i], terms)

\* len([f for f in paths if any term in f])
CountContains(paths, terms) ==
    Cardinality({ i \in 1..Len(paths) : ContainsAny(paths[i], terms) })

\* the evidence strings of the checks that are true, in the order of the code
Evidence(checks) ==
    LET of(n) == IF checks[n][1] THEN << checks[n][2] >> ELSE <<>>
    IN  CatSeq(of, 1, Len(checks))

\* len(evidence) / defined, a float: kept as the fraction it is the value of
Ratio(num, den) == [num |-> num, den |-> den]

\* min(len(evidence) / defined, 1.0)
MinWithOne(ratio) == IF ratio.num > ratio.den THEN Ratio(1, 1) ELSE ratio

\* a pattern reported on a single piece of evidence
ArchitecturePatternOnAnyEvidence(pattern_type, evidence, confidence, description) ==
    IF Len(evidence) >= 1
    THEN << [pattern_type |-> pattern_type, confidence |-> confidence,
             evidence |-> evidence, description |-> description] >>
    ELSE <<>>

\* if len(evidence) >= 2: patterns.append(ArchitecturePattern(...))
ArchitecturePattern(pattern_type, evidence, confidence, description) ==
    IF Len(evidence) >= 2
    THEN << [pattern_type |-> pattern_type, confidence |-> confidence,
             evidence |-> evidence, description |-> description] >>
    ELSE <<>>

mvc_evidence(file_paths) ==
    Evidence(<< << AnyContains(file_paths, <<"model", "/models/">>),
                   "Models directory/files detected" >>,
                << AnyContains(file_paths, <<"view", "/views/", "template">>),
                   "Views/templates detected" >>,
                << AnyContains(file_paths, <<"controller", "/controllers/">>),
                   "Controllers detected" >> >>)

microservices_evidence(file_paths) ==
    Evidence(<< << CountContains(file_paths, <<"service">>) > 2,
                   "Multiple service files detected" >>,
                << AnyContains(file_paths, <<"route", "api">>), "API routes detected" >>,
                << AnyContains(file_paths, <<"docker">>), "Docker configuration found" >>,
                << CountContains(file_paths, <<"main", "app">>) > 1,
                   "Multiple entry points detected" >> >>)

layered_evidence(file_paths) ==
    Evidence(<< << AnyContains(file_paths, <<"repository", "dao", "data", "persistence">>),
                   "Data access layer detected" >>,
                << AnyContains(file_paths, <<"business", "domain", "logic">>),
                   "Business logic layer detected" >>,
                << AnyContains(file_paths, <<"presentation", "ui", "web">>),
                   "Presentation layer detected" >> >>)

\* has_frameworks is computed by the code and adds no evidence
clean_evidence(file_paths) ==
    Evidence(<< << AnyContains(file_paths, <<"entit">>), "Entities layer detected" >>,
                << AnyContains(file_paths, <<"usecase", "use_case">>),
                   "Use cases layer detected" >>,
                << AnyContains(file_paths, <<"adapter">>), "Adapters layer detected" >> >>)

\* has_react and has_vue look at all_files, the paths as given
component_evidence(all_files, file_paths) ==
    Evidence(<< << CountContains(file_paths, <<"component">>) > 2,
                   "Component files detected" >>,
                << AnyContains(all_files, <<".jsx", ".tsx">>), "React components detected" >>,
                << AnyContains(all_files, <<".vue">>), "Vue components detected" >>,
                << AnyContains(file_paths, <<"angular", ".component.ts">>),
                   "Angular components detected" >> >>)

PatternsOf(all_files, file_paths) ==
    ArchitecturePattern("MVC (Model-View-Controller)", mvc_evidence(file_paths),
        Ratio(Len(mvc_evidence(file_paths)), 3),
        "Traditional web application architecture with separated concerns")
    \o ArchitecturePattern("Microservices", microservices_evidence(file_paths),
        MinWithOne(Ratio(Len(microservices_evidence(file_paths)), 4)),
        "Distributed architecture with independent deployable services")
    \o ArchitecturePattern("Layered Architecture", layered_evidence(file_paths),
        Ratio(Len(layered_evidence(file_paths)), 3),
        "Horizontally structured architecture with distinct layers")
    \o ArchitecturePattern("Clean Architecture", clean_evidence(file_paths),
        Ratio(Len(clean_evidence(file_paths)), 3),
        "Dependency-inverted architecture focusing on business rules")
    \o ArchitecturePattern("Component-Based Frontend",
        component_evidence(all_files, file_paths),
        Ratio(Len(component_evidence(all_files, file_paths)), 4),
        "Modular frontend architecture with reusable components")

\* GitIntegration._detect_architecture_patterns
_detect_architecture_patterns(all_files) ==
    Only({ PatternsOf(all_files, file_paths)
           : file_paths \in {[i \in 1..Len(all_files) |-> lower(all_files[i])]} })

\* _detect_architecture_patterns: file lists of up to MaxAllFiles paths, and
\* two longer ones with three service files and three component files
MaxAllFiles == 3

ArchitecturePaths ==
    { "app/Models/user.py", "app/views/index.html", "app/controllers/home.py",
      "services/user_service.py", "Dockerfile", "src/domain/repository.py",
      "framework/entity.py", "src/usecases/adapter.py", "src/Button.JSX",
      "src/App.vue", "src/x.component.ts", "README.md" }

ManyServices ==
    << "services/a_service.py", "services/b_service.py", "services/c_service.py" >>

ManyComponents ==
    << "src/components/A.tsx", "src/components/B.tsx", "src/components/C.js" >>

ArchitectureInputs ==
    ListsUpTo(ArchitecturePaths, MaxAllFiles)
    \cup { many \o rest : many \in {ManyServices, ManyComponents},
                          rest \in ListsUpTo(ArchitecturePaths, 1) }

InitArchitecture == Idle /\ NoLimiter /\ fin \in ArchitectureInputs /\ fout = NoResult

architecture_patterns_detected ==
    /\ fout = NoResult
    /\ fout' = Value(_detect_architecture_patterns(fin))
    /\ UNCHANGED <<limiter, machine, fin>>

NextArchitecture == architecture_patterns_detected

SpecArchitecture == InitArchitecture /\ [][NextArchitecture]_vars

\* _analyze_project_structure: the category of a file, "" when no rule holds
CategoryOf(file_path) ==
    Only({ IF ContainsAny(file_path, <<".js", ".jsx", ".ts", ".tsx", ".vue", ".html",
                                       ".css", ".scss">>) THEN "Frontend"
           ELSE IF ContainsAny(file_path, <<".py", ".java", ".go", ".cs", ".php", ".rb">>)
           THEN "Backend"
           ELSE IF ContainsAny(file_lower, <<"migration", "seed", ".sql", "database",
                                             "schema">>) THEN "Database"
           ELSE IF ContainsAny(file_path, <<".json", ".yaml", ".yml", ".toml", ".ini",
                                            ".env">>) THEN "Configuration"
           ELSE IF ContainsAny(file_lower, <<"test", "spec", "__test__", ".test.",
                                             ".spec.">>) THEN "Tests"
           ELSE IF /\ ContainsAny(file_path, <<".md", ".rst", ".txt">>)
                   /\ contains(file_lower, "readme") THEN "Documentation"
           ELSE IF ContainsAny(file_lower, <<"dockerfile", "makefile", "package.json",
                                             "requirements", "build", "deploy">>)
           THEN "Build/Deploy"
           ELSE IF ContainsAny(file_path, <<".png", ".jpg", ".svg", ".ico", ".gif">>)
           THEN "Assets"
           ELSE ""
           : file_lower \in {lower(file_path)} })

\* the keys of structure, in the order of the dict
Categories ==
    << "Frontend", "Backend", "Database", "Configuration", "Tests", "Documentation",
       "Build/Deploy", "Assets" >>

\* "Remove empty categories": {k: v for k, v in structure.items() if v}
NonEmptyCategories(structure) == SelectSeq(structure, LAMBDA item : item[2] # <<>>)

\* structure[category], when the loop over all_files has ended
FilesOf(category, all_files, category_of) ==
    LET selected == SelectSeq([i \in 1..Len(all_files) |-> <<all_files[i], category_of[i]>>],
                              LAMBDA f : f[2] = category)
    IN  [n \in 1..Len(selected) |-> selected[n][1]]

\* GitIntegration._analyze_project_structure: the dict, as the list of its
\* items
_analyze_project_structure(all_files) ==
    Only({ NonEmptyCategories([k \in 1..Len(Categories) |->
               << Categories[k], FilesOf(Categories[k], all_files, category_of) >>])
           : category_of \in {[i \in 1..Len(all_files) |-> CategoryOf(all_files[i])]} })

\* _analyze_project_structure: file lists of up to MaxAllFiles paths
StructurePaths ==
    { "src/App.tsx", "api/server.py", "db/schema.sql", "config/settings.yaml",
      "tests/plan", "README.md", "Dockerfile", "assets/logo.png", "data/users.json",
      "LICENSE", "notes.txt" }

InitStructure ==
    Idle /\ NoLimiter /\ fin \in ListsUpTo(StructurePaths, MaxAllFiles) /\ fout = NoResult

project_structure_analyzed ==
    /\ fout = NoResult
    /\ fout' = Value(_analyze_project_structure(fin))
    /\ UNCHANGED <<limiter, machine, fin>>

NextStructure == project_structure_analyzed

SpecStructure == InitStructure /\ [][NextStructure]_vars

-----------------------------------------------------------------------------
(* Construction.  fin is the environment of the process: the API keys that *)
(* are set, whether the local endpoint answers, the file that              *)
(* AI_PROVIDERS_CONFIG names, the class constructed and the arguments of   *)
(* the constructor.  providers is the registry _load_providers fills, fout *)
(* the outcome of the construction.                                        *)

\* a config_dict of the providers file: the fields it sets ("" for a field
\* it leaves out), and whether it has a key ProviderConfig does not take
AConfig(api_key, endpoint, unexpected) ==
    [api_key |-> api_key, endpoint |-> endpoint, unexpected |-> unexpected]

\* _load_providers, "Default configurations"
DefaultConfigs ==
    << << "claude", AConfig("", "", FALSE) >>,
       << "openai", AConfig("", "", FALSE) >>,
       << "openrouter", AConfig("", "https://openrouter.ai/api/v1/chat/completions", FALSE) >>,
       << "local", AConfig("", "http://localhost:11434/api/generate", FALSE) >> >>

\* validate_config of the five provider classes
validate_config(provider_class, config_dict, env) ==
    CASE provider_class = "claude" ->
             config_dict.api_key # "" \/ "ANTHROPIC_API_KEY" \in env.keys
      [] provider_class = "openai" ->
             config_dict.api_key # "" \/ "OPENAI_API_KEY" \in env.keys
      [] provider_class = "openrouter" ->
             config_dict.api_key # "" \/ "OPENROUTER_API_KEY" \in env.keys
      [] provider_class = "local" -> config_dict.endpoint # ""
      [] provider_class = "custom" ->
             config_dict.endpoint # "" /\ config_dict.api_key # ""

\* the body of the try of _load_providers: ProviderConfig(**config_dict)
\* raises TypeError on a key it does not take, ProviderFactory.create raises
\* ValueError for an unknown type and for a configuration that is not valid
Loads(provider_name, config_dict, env) ==
    /\ ~config_dict.unexpected
    /\ lower(provider_name) \in {"claude", "openai", "local", "custom", "openrouter"}
    /\ validate_config(lower(provider_name), config_dict, env)

\* _load_providers, "Create provider instances": the registry after the loop
RECURSIVE LoadedProviders(_, _)
LoadedProviders(configs, env) ==
    IF configs = <<>> THEN {}
    ELSE (IF Loads(configs[1][1], configs[1][2], env) THEN {configs[1][1]} ELSE {})
         \cup LoadedProviders(Tail(configs), env)

\* AICodeReviewer._detect_available_providers
_detect_available_providers(env) ==
    (IF "ANTHROPIC_API_KEY" \in env.keys THEN <<"claude">> ELSE <<>>)
    \o (IF "OPENAI_API_KEY" \in env.keys THEN <<"openai">> ELSE <<>>)
    \o (IF "OPENROUTER_API_KEY" \in env.keys THEN <<"openrouter">> ELSE <<>>)
    \o (IF env.local_answers THEN <<"local">> ELSE <<>>)

Members(lst) == { lst[i] : i \in 1..Len(lst) }

\* AICodeReviewer._auto_select_primary, for a list that is not empty
_auto_select_primary(available_providers) ==
    LET priority_order == <<"claude", "openai", "openrouter", "local">>
    IN  priority_order[Lowest(1, 4, LAMBDA n : priority_order[n] \in Members(available_providers))]

\* the construction is that of an AICodeReviewer and no provider is
\* available: _auto_select_primary raises
no_provider_available ==
    /\ pc = "construct" /\ fin.class = "AICodeReviewer"
    /\ _detect_available_providers(fin) = <<>>
    /\ fout' = Raised("Exception")
    /\ pc' = "done"
    /\ UNCHANGED <<limiter, providers, primary_provider, fallback_providers, diff_content, work,
                   chunks, ci, fi, prompt, attempts, chunk_result, all_findings,
                   done_chunks, code_result, diff_result, fin>>

\* AICodeReviewer.__init__ up to the construction of its reviewer
providers_selected ==
    /\ pc = "construct" /\ fin.class = "AICodeReviewer"
    /\ LET available_providers == _detect_available_providers(fin)
           primary == IF fin.primary_provider \in Members(available_providers)
                      THEN fin.primary_provider
                      ELSE _auto_select_primary(available_providers)
       IN  /\ available_providers # <<>>
           /\ primary_provider' = primary
           /\ fallback_providers' =
                  IF fin.fallback_providers # <<>>
                  THEN SelectSeq(fin.fallback_providers,
                                 LAMBDA p : p \in Members(available_providers))
                  ELSE SelectSeq(available_providers, LAMBDA p : p # primary)
    /\ pc' = "reviewer"
    /\ UNCHANGED <<limiter, providers, diff_content, work, chunks, ci, fi, prompt, attempts,
                   chunk_result, all_findings, done_chunks, code_result, diff_result,
                   pure>>

\* MultiProviderReviewer.__init__ when it is the class constructed
reviewer_constructed ==
    /\ pc = "construct" /\ fin.class = "MultiProviderReviewer"
    /\ primary_provider' = IF fin.primary_provider = "" THEN "claude"
                           ELSE fin.primary_provider
    /\ fallback_providers' = InitFallbacks(fin.fallback_providers)
    /\ pc' = "load"
    /\ UNCHANGED <<limiter, providers, diff_content, work, chunks, ci, fi, prompt, attempts,
                   chunk_result, all_findings, done_chunks, code_result, diff_result,
                   pure>>

\* MultiProviderReviewer.__init__ as AICodeReviewer.__init__ calls it: a
\* fallback list that is empty is replaced by the default one
reviewer_of_orchestrator ==
    /\ pc = "reviewer"
    /\ fallback_providers' = InitFallbacks(fallback_providers)
    /\ pc' = "load"
    /\ UNCHANGED <<limiter, providers, primary_provider, diff_content, work, chunks, ci, fi,
                   prompt, attempts, chunk_result, all_findings, done_chunks,
                   code_result, diff_result, pure>>

\* _load_providers: json.load raises on a file that is not JSON, and
\* configs.items() on one that holds no object
providers_file_unreadable ==
    /\ pc = "load" /\ fin.config_file.kind \in {"not json", "array"}
    /\ fout' = Raised(IF fin.config_file.kind = "array" THEN "AttributeError"
                      ELSE "JSONDecodeError")
    /\ pc' = "done"
    /\ UNCHANGED <<limiter, providers, primary_provider, fallback_providers, diff_content, work,
                   chunks, ci, fi, prompt, attempts, chunk_result, all_findings,
                   done_chunks, code_result, diff_result, fin>>

\* _load_providers, and the return of the constructors
providers_loaded ==
    /\ pc = "load" /\ fin.config_file.kind \in {"unset", "object"}
    /\ providers' = LoadedProviders(IF fin.config_file.kind = "unset" THEN DefaultConfigs
                                    ELSE fin.config_file.configs, fin)
    /\ fout' = Value("constructed")
    /\ pc' = "done"
    /\ UNCHANGED <<limiter, primary_provider, fallback_providers, diff_content, work, chunks, ci,
                   fi, prompt, attempts, chunk_result, all_findings, done_chunks,
                   code_result, diff_result, fin>>

\* the files AI_PROVIDERS_CONFIG names: none, one that is not JSON, one
\* that holds an array, and objects of providers that load and that do not
ConfigFiles ==
    { [kind |-> k, configs |-> <<>>] : k \in {"unset", "not json", "array", "object"} }
    \cup { [kind |-> "object", configs |-> c] : c \in
             { << << "claude", AConfig("", "", FALSE) >> >>,
               << << "claude", AConfig("", "", TRUE) >>,
                  << "local", AConfig("", "http://localhost:11434/api/generate", FALSE) >> >>,
               << << "custom", AConfig("", "https://ai.example/v1", FALSE) >>,
                  << "mystery", AConfig("k", "", FALSE) >> >>,
               << << "Claude", AConfig("k", "", FALSE) >>,
                  << "openai", AConfig("", "", FALSE) >>,
                  << "openrouter", AConfig("", "", FALSE) >> >> } }

Environments ==
    [ keys : SUBSET {"ANTHROPIC_API_KEY", "OPENAI_API_KEY", "OPENROUTER_API_KEY"},
      local_answers : BOOLEAN,
      config_file : ConfigFiles,
      class : {"AICodeReviewer", "MultiProviderReviewer"},
      primary_provider : {"", "openai"},
      fallback_providers : {<<>>, <<"local", "claude">>} ]

InitStartup ==
    /\ providers = {}
    /\ primary_provider = ""
    /\ fallback_providers = <<>>
    /\ diff_content = <<>>
    /\ pc = "construct"
    /\ work = <<>>
    /\ chunks = <<>>
    /\ ci = 0
    /\ fi = 0
    /\ prompt = <<>>
    /\ attempts = <<>>
    /\ chunk_result = NoResult
    /\ all_findings = <<>>
    /\ done_chunks = <<>>
    /\ code_result = NoResult
    /\ diff_result = NoResult
    /\ fin \in Environments
    /\ fout = NoResult
    /\ NoLimiter

NextStartup ==
    \/ no_provider_available
    \/ providers_selected
    \/ reviewer_constructed
    \/ reviewer_of_orchestrator
    \/ providers_file_unreadable
    \/ providers_loaded

SpecStartup == InitStartup /\ [][NextStartup]_vars

-----------------------------------------------------------------------------
(* review_diff from its first line: the context is gathered, then the diff *)
(* is reviewed.  fin is the environment of the gathering: what reading a   *)
(* changed file gives and what git ls-files gives; fout is the context     *)
(* gathered.  Of the context the hunks, the file contexts, the breaking    *)
(* changes and the detected patterns are kept; the other analysers catch   *)
(* every exception themselves and their values are not represented.        *)

\* GitIntegration._discover_all_project_files; ls_files is the outcome of
\* subprocess.run(["git", "ls-files", ...], check=True)
_discover_all_project_files(ls_files) ==
    IF ls_files.git = "CalledProcessError" THEN Value(<<>>)
    ELSE IF ls_files.git = "raises" THEN Raised("FileNotFoundError")
    ELSE Value(Take(SelectSeq(SplitLines(strip(ls_files.stdout)),
                              LAMBDA f : f # "" /\ ~startswith(f, ".")), 200))

\* the lines of the diff as parse_diff_hunks reads them: it looks at the
\* start of a line only, the filler characters that follow are left out
HeadsOf(diff) == [n \in 1..Len(diff) |-> diff[n].head]

\* review_diff from parse_diff_hunks to analyze_project_architecture, with
\* the hunks parsed
ContextOfHunks(hunks, env) ==
    Only({ IF all_files.kind = "raised" THEN all_files
           ELSE Value([hunks |-> hunks,
                       file_contexts |->
                           [f \in { hunks[n].file_path : n \in 1..Len(hunks) } |->
                               get_file_context(f, env.file)],
                       breaking_changes |-> BreakingChangesOf(hunks),
                       detected_patterns |-> _detect_architecture_patterns(all_files.value)])
           : all_files \in {_discover_all_project_files(env.ls_files)} })

\* review_diff up to "response_text = await self.reviewer.review_code(...)"
GatheredContext(diff, env) ==
    Only({ IF hunks.kind = "raised" THEN hunks ELSE ContextOfHunks(hunks.value, env)
           : hunks \in {parse_diff_hunks(HeadsOf(diff), env.file)} })

\* review_diff: the context is gathered and the diff goes to review_code
context_gathered ==
    /\ pc = "gather"
    /\ \E gathered \in {GatheredContext(diff_content, fin)} :
           gathered.kind = "returned" /\ fout' = gathered
    /\ pc' = "start"
    /\ UNCHANGED <<limiter, config, work, chunks, ci, fi, prompt, attempts, chunk_result,
                   all_findings, done_chunks, code_result, diff_result, fin>>

\* review_diff: the gathering raises, "except Exception" returns []
context_gathering_raises ==
    /\ pc = "gather"
    /\ \E gathered \in {GatheredContext(diff_content, fin)} :
           gathered.kind = "raised" /\ fout' = gathered
    /\ diff_result' = ReturnedReviews(<<>>)
    /\ pc' = "done"
    /\ UNCHANGED <<limiter, config, work, chunks, ci, fi, prompt, attempts, chunk_result,
                   all_findings, done_chunks, code_result, fin>>

\* a file section with one hunk, its last line size characters long
HunkSection(path, header, size) ==
    << Line("diff --git a/" \o path \o " b/" \o path, 0), Line(header, 0),
       Line("-def foo(x):", 0), Line("+", size - 1) >>

\* the diffs under review: one reviewed in one piece, one in two chunks
GatherDiffs ==
    { HunkSection("auth.py", "@@ -1 +1 @@", 40),
      HunkSection("auth.py", "@@ -1 +1 @@", 300000)
          \o HunkSection("app/models/db.py", "@@ -5,2 +2 @@", 300000) }

\* the environments: the changed files can be read or not; git ls-files
\* prints the project files, fails, or cannot be run
GatherEnvironments ==
    [ file : { [git |-> "printed", disk |-> "read", content |-> "import os\ndef foo(x):"],
               [git |-> "CalledProcessError", disk |-> "FileNotFoundError", content |-> ""],
               [git |-> "raises", disk |-> "read", content |-> ""] },
      ls_files : { [git |-> "printed",
                    stdout |-> "app/models/db.py\napp/views/v.html\n.gitignore\nREADME.md\n"],
                   [git |-> "CalledProcessError", stdout |-> ""],
                   [git |-> "raises", stdout |-> ""] } ]

InitGather ==
    /\ providers \in SUBSET ProviderIds
    /\ primary_provider \in ProviderIds
    /\ \E given \in ListsUpTo(ProviderIds, MaxFallbacks) :
           fallback_providers = InitFallbacks(given)
    /\ diff_content \in GatherDiffs
    /\ pc = "gather"
    /\ work = <<>>
    /\ chunks = <<>>
    /\ ci = 0
    /\ fi = 0
    /\ prompt = <<>>
    /\ attempts = <<>>
    /\ chunk_result = NoResult
    /\ all_findings = <<>>
    /\ done_chunks = <<>>
    /\ code_result = NoResult
    /\ diff_result = NoResult
    /\ fin \in GatherEnvironments
    /\ fout = NoResult
    /\ NoLimiter

NextGather ==
    \/ context_gathered
    \/ context_gathering_raises
    \/ Next

SpecGather == InitGather /\ [][NextGather]_vars

-----------------------------------------------------------------------------
(* RateLimiter (config_manager.py).  acquire() is a coroutine: it runs      *)
(* without interruption up to "await asyncio.sleep(sleep_time)", where      *)
(* other tasks run and time passes, and from there to its end.  Time is     *)
(* counted in whole seconds.                                                *)

\* RateLimiter(max_requests, time_window); the defaults are 10 and 60
max_requests == 2
time_window == 3

\* the clock stops at MaxClock, and at most MaxAcquires calls are made
MaxClock == 5
MaxAcquires == 5

TaskIds == {"t1", "t2"}

IdleTask == [pc |-> "idle", now |-> 0, wake |-> 0]

\* "Remove old requests"
RecentRequests(reqs, now) ==
    LET recent(req_time) == now - req_time < time_window
    IN  SelectSeq(reqs, recent)

\* sleep_time = self.time_window - (now - self.requests[0])
SleepTime(reqs, now) == time_window - (now - reqs[1])

\* the call must wait: len(self.requests) >= self.max_requests and
\* sleep_time > 0, on the list after the removal
MustSleep(reqs, now) ==
    /\ Len(reqs) >= max_requests
    /\ SleepTime(reqs, now) > 0

Acquisition(task, at, slept) == [task |-> task, at |-> at, slept |-> slept]

Begun ==
    Len(acquired) + Cardinality({t \in TaskIds : tasks[t].pc = "sleeping"})

\* acquire() of a task that need not sleep: it records now and returns
acquire_returns(t) ==
    /\ tasks[t].pc = "idle"
    /\ Begun < MaxAcquires
    /\ \E recent \in {RecentRequests(requests, clock)} :
           /\ ~MustSleep(recent, clock)
           /\ requests' = Append(recent, clock)
    /\ acquired' = Append(acquired, Acquisition(t, clock, FALSE))
    /\ UNCHANGED <<machine, pure, clock, tasks>>

\* acquire() up to its await: the old requests are removed and the task
\* sleeps sleep_time seconds, keeping its reading of the clock in now
acquire_sleeps(t) ==
    /\ tasks[t].pc = "idle"
    /\ Begun < MaxAcquires
    /\ \E recent \in {RecentRequests(requests, clock)} :
           /\ MustSleep(recent, clock)
           /\ requests' = recent
           /\ tasks' = [tasks EXCEPT ![t] =
                  [pc |-> "sleeping", now |-> clock,
                   wake |-> clock + SleepTime(recent, clock)]]
    /\ UNCHANGED <<machine, pure, clock, acquired>>

\* acquire() from its await to its end: asyncio.sleep has returned, at the
\* time asked for or later; now, read before the sleep, is recorded
acquire_wakes(t) ==
    /\ tasks[t].pc = "sleeping"
    /\ clock >= tasks[t].wake
    /\ requests' = Append(requests, tasks[t].now)
    /\ acquired' = Append(acquired, Acquisition(t, clock, TRUE))
    /\ tasks' = [tasks EXCEPT ![t] = IdleTask]
    /\ UNCHANGED <<machine, pure, clock>>

\* a second passes
time_passes ==
    /\ clock < MaxClock
    /\ clock' = clock + 1
    /\ UNCHANGED <<machine, pure, requests, tasks, acquired>>

InitLimiter ==
    /\ Idle
    /\ fin = 0
    /\ fout = 0
    /\ requests = <<>>
    /\ clock = 0
    /\ tasks = [t \in TaskIds |-> IdleTask]
    /\ acquired = <<>>

NextLimiter ==
    \/ \E t \in TaskIds : acquire_returns(t)
    \/ \E t \in TaskIds : acquire_sleeps(t)
    \/ \E t \in TaskIds : acquire_wakes(t)
    \/ time_passes

SpecLimiter == InitLimiter /\ [][NextLimiter]_vars

-----------------------------------------------------------------------------
(* Properties of the review task (specification Spec).                     *)

\* the provider chain of the reviewer, and its entries that are registered
Chain == <<primary_provider>> \o fallback_providers

IsRegistered(p) == p \in providers

RegisteredChain == SelectSeq(Chain, IsRegistered)

\* the providers complete() was called on for the chunk under review
Attempted == [n \in 1..Len(attempts) |-> attempts[n].provider]

Succeeded(attempt) == attempt.outcome.kind = "returned"

IsPrefix(a, b) == Len(a) <= Len(b) /\ SubSeq(b, 1, Len(a)) = a

Reviewing == pc \in {"try_primary", "try_fallback"}

Finished == pc \in {"code_done", "done"}

Chunked == chunks # <<>>

AllRaised(results) == \A n \in 1..Len(results) : results[n].kind = "raised"

NoneRaised(results) == \A n \in 1..Len(results) : results[n].kind = "returned"

\* the finding records the replies hold
RecordA == Finding("critical", "security", "a.py", 1, 2, "x", <<>>)

RecordB == Finding("info", "style", "b.py", 3, 3, "y", <<>>)

\* the findings of the outcome of one chunk: those its reply holds
FindingsIn(result) ==
    IF result.kind = "returned" /\ result.text = ReplyFenced THEN <<RecordA>>
    ELSE IF result.kind = "returned" /\ result.text = ReplyBare THEN <<RecordB>>
    ELSE <<>>

\* the findings of the outcomes of the chunks, chunk after chunk
FindingsOfChunks(results) ==
    LET findings(n) == FindingsIn(results[n]) IN CatSeq(findings, 1, Len(results))

\* the review a finding record stands for
ReviewOf(record) ==
    [severity |-> record.v[1].x, category |-> record.v[2].x, file |-> record.v[3].x,
     line_start |-> record.v[4].x, line_end |-> record.v[5].x,
     message |-> record.v[6].x, suggestion |-> None, code_snippet |-> None,
     fixed_code |-> None, impact |-> None, confidence |-> None]

ReviewsOfRecords(records) == [n \in 1..Len(records) |-> ReviewOf(records[n])]

\* C1: for one chunk the providers are attempted one after another, the
\* primary first, then the fallbacks in the order of the list (those that
\* are registered); every attempt but the last has failed; once an attempt
\* has succeeded no other is made and its text is the result of the chunk;
\* the chunk raises only after the whole chain was attempted.
C1_SequentialAttempts ==
    /\ IsPrefix(Attempted, RegisteredChain)
    /\ \A n \in 1..(Len(attempts) - 1) : ~Succeeded(attempts[n])
    /\ \A n \in 1..Len(attempts) :
           Succeeded(attempts[n]) =>
               /\ ~Reviewing
               /\ pc = "chunk_done" => chunk_result = attempts[n].outcome
    /\ chunk_result.kind = "raised" => Attempted = RegisteredChain

\* the primary and the first fallback failed, the second fallback succeeded
C1_Witness ==
    /\ pc = "chunk_done"
    /\ Len(attempts) = 3
    /\ attempts[1].provider = primary_provider
    /\ attempts[2].provider = fallback_providers[1]
    /\ attempts[3].provider = fallback_providers[2]
    /\ ~Succeeded(attempts[1]) /\ ~Succeeded(attempts[2])
    /\ chunk_result = Returned(ReplyFenced)

PrimaryAlwaysFails ==
    \A n \in 1..Len(attempts) :
        attempts[n].provider = primary_provider => ~Succeeded(attempts[n])

FallbackAlwaysSucceeds(f) ==
    \A n \in 1..Len(attempts) : attempts[n].provider = f => Succeeded(attempts[n])

SomeFallbackAlwaysSucceeds ==
    \E k \in 1..Len(fallback_providers) :
        /\ fallback_providers[k] \in providers
        /\ FallbackAlwaysSucceeds(fallback_providers[k])

LastAttempt == attempts[Len(attempts)]

\* C2: when the calls of the primary fail and the calls of a registered
\* fallback succeed, the review of a chunk returns the reply of a fallback;
\* and when the review of every chunk returned, review_code returns: the
\* reply itself for a diff reviewed in one piece, the findings of the replies
\* for a chunked (filtered or not) diff.  review_code raises for no chunked
\* diff.
C2_FallbackResultReturned ==
    /\ (pc = "chunk_done" /\ PrimaryAlwaysFails /\ SomeFallbackAlwaysSucceeds) =>
           /\ chunk_result.kind = "returned"
           /\ attempts # <<>>
           /\ chunk_result = LastAttempt.outcome
           /\ \E k \in 1..Len(fallback_providers) :
                  fallback_providers[k] = LastAttempt.provider
    /\ (Finished /\ NoneRaised(done_chunks)) =>
           /\ code_result.kind = "returned"
           /\ ~Chunked => code_result = done_chunks[1]
           /\ (Chunked /\ pc = "done") =>
                  diff_result = ReturnedReviews(
                      ReviewsOfRecords(FindingsOfChunks(done_chunks)))
    /\ (Finished /\ Chunked) => code_result.kind = "returned"

\* the second chunk of a filtered diff: the primary failed, the fallback
\* replied, as for the first chunk
C2_Witness ==
    /\ pc = "chunk_done"
    /\ work # diff_content
    /\ ci = 2
    /\ done_chunks = <<Returned(ReplyBare)>>
    /\ Len(attempts) = 2
    /\ attempts[1] = Attempt(primary_provider, Raised("Exception"))
    /\ attempts[2] = Attempt(fallback_providers[1], Returned(ReplyFenced))
    /\ chunk_result = Returned(ReplyFenced)

C4_FailedChunkSkipped ==
    Chunked =>
        /\ Finished => Len(done_chunks) = Len(chunks)
        /\ Finished => code_result.kind = "returned"
        /\ ~Finished => Len(done_chunks) = ci - 1
        /\ \A n \in 1..Len(done_chunks) :
               \A k \in 1..Len(FindingsIn(done_chunks[n])) :
                   /\ \E m \in 1..Len(all_findings) :
                          all_findings[m] = FindingsIn(done_chunks[n])[k]
                   /\ pc = "done" =>
                          \E m \in 1..Len(diff_result.reviews) :
                              diff_result.reviews[m]
                                  = ReviewOf(FindingsIn(done_chunks[n])[k])

\* the first chunk failed with every provider, the second was reviewed and
\* its finding is returned
C4_Witness ==
    /\ pc = "done"
    /\ Len(chunks) = 2
    /\ primary_provider \in providers
    /\ done_chunks = <<Raised("ProviderException"), Returned(ReplyFenced)>>
    /\ diff_result = ReturnedReviews(<<ReviewOf(RecordA)>>)

\* C5: in a chunked review the chunks are reviewed one after the other, in
\* their order, and the findings accumulated, and those returned at the
\* end, are the findings of the chunks that succeeded, chunk after chunk:
\* none dropped, moved or merged.
C5_ChunkOrder ==
    Chunked =>
        /\ (Reviewing \/ pc = "chunk_done") =>
               /\ ci = Len(done_chunks) + 1
               /\ prompt = chunks[ci]
        /\ all_findings = FindingsOfChunks(done_chunks)
        /\ pc = "done" =>
               diff_result.reviews = ReviewsOfRecords(FindingsOfChunks(done_chunks))

\* two chunks reported the same finding: it is returned twice
C5_Witness ==
    /\ pc = "done"
    /\ done_chunks = <<Returned(ReplyFenced), Returned(ReplyFenced)>>
    /\ all_findings = <<RecordA, RecordA>>
    /\ Len(diff_result.reviews) = 2

\* C6: review_diff returns a list, whatever the providers did; the list is
\* empty when every provider failed for every chunk (or for the one piece).
C6_NoExceptionEscapes ==
    pc = "done" =>
        /\ diff_result.kind = "returned"
        /\ AllRaised(done_chunks) => diff_result = ReturnedReviews(<<>>)

\* every registered provider failed for the diff reviewed in one piece
C6_Witness ==
    /\ pc = "done"
    /\ ~Chunked
    /\ Len(attempts) >= 2
    /\ code_result = Raised("ProviderException")
    /\ diff_result = ReturnedReviews(<<>>)

\* C7: a diff of at most max_safe_tokens estimated tokens is chunked into
\* the one chunk that is the diff, and review_code reviews it in one piece:
\* one _review_single_chunk, of the diff as it is, whose outcome is the
\* outcome of review_code.
C7_SmallDiffInOnePiece ==
    (pc # "start" /\ JoinedLen(diff_content) \div 4 <= 80000) =>
        /\ _chunk_diff(diff_content, 80000) = <<diff_content>>
        /\ work = diff_content
        /\ ~Chunked
        /\ prompt = diff_content
        /\ Finished => Len(done_chunks) = 1 /\ code_result = done_chunks[1]

\* the diff of exactly 80000 estimated tokens was reviewed in one piece
C7_Witness ==
    /\ pc = "done"
    /\ JoinedLen(diff_content) \div 4 = 80000
    /\ done_chunks = <<Returned(ReplyFenced)>>
    /\ code_result = Returned(ReplyFenced)

-----------------------------------------------------------------------------
(* Properties of the pure functions (specifications SpecChunk, SpecFilter, *)
(* SpecParse).                                                             *)

Called == fout # NoResult

\* C8: for a diff whose estimate exceeds the budget, the estimate of every
\* chunk that _chunk_diff returns is at most the budget.
C8_ChunksWithinBudget ==
    (Called /\ _estimate_tokens(fin.diff) > fin.max_chunk_tokens) =>
        \A n \in 1..Len(fout.value) :
            _estimate_tokens(fout.value[n]) <= fin.max_chunk_tokens

\* the paths of the file sections of a diff
SectionPaths(diff) ==
    { FileOfHeader(diff[n]).head :
          n \in {k \in 1..Len(diff) : LineStartsWith(diff[k], "diff --git")} }

\* the priority of a file: 1, plus 3 for a high-priority keyword in its
\* path, minus 2 for a low-priority keyword
PriorityOf(file) == ComputedPriority(Line(file.path, 0))

\* the size of a file: the length of its section
SizeOf(file) == JoinedLen(Section(file.path, file.size))

\* C9: the sections _filter_important_files keeps are those of the top
\* max_files files under (priority descending, size descending): max_files
\* of them (all, if there are fewer), no kept file of lower priority than a
\* discarded one, nor of equal priority and smaller.
C9_TopFilesKept ==
    Called =>
        LET files == {fin.files[n] : n \in 1..Len(fin.files)}
            kept == {f \in files : f.path \in SectionPaths(fout.value)}
            discarded == files \ kept
        IN  /\ Cardinality(kept) = Min(fin.max_files, Len(fin.files))
            /\ \A k \in kept, d \in discarded :
                   /\ PriorityOf(k) >= PriorityOf(d)
                   /\ PriorityOf(k) = PriorityOf(d) => SizeOf(k) >= SizeOf(d)

\* C10: for a reply that holds a well-formed array of finding records,
\* bare, fenced or within prose without square brackets,
\* _parse_review_response returns one review per record, in the order of
\* the array, with the fields of the record and None for each optional
\* field the record lacks.
C10_OneReviewPerRecord ==
    Called => fout.value = [n \in 1..Len(fin.records) |-> CodeReview(fin.records[n])]

\* the decode of a reply has failed: the cleaned text is no JSON, or no
\* array, or an item of the array is no record with all required fields
DecodeFailed(text) ==
    LET findings == json_loads(CleanResponse(text)) IN
    \/ ~findings.ok
    \/ findings.val.t # "list"
    \/ \E n \in 1..Len(findings.val.v) : ~Subscriptable(findings.val.v[n])

IsSynthetic(reviews) ==
    /\ Len(reviews) = 1
    /\ reviews[1].severity = JStr("info")
    /\ reviews[1].category = JStr("system")

\* C11: when the decode of the reply fails (no JSON, no array, an item that
\* is no record with all required fields), _parse_review_response returns
\* exactly one review, of severity info and category system.
C11_DecodeFailureYieldsSynthetic ==
    (Called /\ DecodeFailed(ReplyText(fin))) => IsSynthetic(fout.value)

Severities == {JStr("critical"), JStr("major"), JStr("minor"), JStr("info")}

\* C18: every review _parse_review_response returns has a severity of
\* critical, major, minor or info, and line_end >= line_start.
C18_ReviewsWithinContract ==
    Called =>
        \A n \in 1..Len(fout.value) :
            /\ fout.value[n].severity \in Severities
            /\ fout.value[n].line_start.t = "int"
            /\ fout.value[n].line_end.t = "int"
            /\ fout.value[n].line_end.v >= fout.value[n].line_start.v

\* the lines of the diff that start with @@, in their order
HeaderLines(diff) == {i \in 1..Len(diff) : startswith(diff[i], "@@")}

NthOf(S, k) == CHOOSE i \in S : Cardinality({j \in S : j < i}) = k - 1

IsBody(line) == startswith(line, " ") \/ startswith(line, "+") \/ startswith(line, "-")

\* the lines of the hunk whose header is line h of the diff: those that
\* start with a space, + or -, up to the next @@ header or file header
BodyOf(diff, h) ==
    LET ends == {i \in (h + 1)..Len(diff) :
                     startswith(diff[i], "@@") \/ startswith(diff[i], "diff --git")}
        end == IF ends = {} THEN Len(diff) + 1 ELSE NthOf(ends, 1)
    IN  SelectSeq(SubSeq(diff, h + 1, end - 1), IsBody)

\* C12: for a well-formed diff parse_diff_hunks returns one hunk per @@
\* header line, in the order of the headers (the ranges of the k-th hunk
\* are those of the k-th header), and the lines of each hunk are the lines
\* that start with a space, + or - between its header and the next @@
\* header or file header.
C12_OneHunkPerHeader ==
    (Called /\ fin.diff \in ValidDiffs) =>
        /\ fout.kind = "returned"
        /\ Len(fout.value) = Cardinality(HeaderLines(fin.diff))
        /\ \A k \in 1..Len(fout.value) :
               LET h == NthOf(HeaderLines(fin.diff), k)
                   header == MatchHeaderAt(fin.diff[h], 0)
               IN  /\ fout.value[k].old_start = IntOf(header.group1)
                   /\ fout.value[k].new_start = IntOf(header.group3)
                   /\ fout.value[k].lines = BodyOf(fin.diff, h)

\* a diff of two files, the first of two hunks, parsed into three hunks
C12_Witness ==
    /\ Called
    /\ fin.diff \in ValidDiffs
    /\ Cardinality({i \in 1..Len(fin.diff) : startswith(fin.diff[i], "diff --git")}) = 2
    /\ Len(fout.value) = 3
    /\ fout.value[2].lines = << " c", "-def foo(x):", "+a" >>

\* C13: parse_diff_hunks raises for no input, and returns the empty list
\* for an input without a line that starts with @@.
C13_NeverRaises ==
    Called =>
        /\ fout.kind = "returned"
        /\ HeaderLines(fin.diff) = {} => fout.value = <<>>

\* the part of C13 that the code has: no @@ line, no hunk, no exception
C13_NoHeaderNoHunk ==
    (Called /\ HeaderLines(fin.diff) = {}) => fout = Value(<<>>)

\* parse_diff_hunks raises only for a header whose number is too long
C13_RaisesOnlyOnLongNumber ==
    (Called /\ fout.kind = "raised") => fin.diff \in LongHeaderDiffs

\* the content of the file cannot be read: git show fails and the working
\* tree has no such file or the read fails, or git show raises otherwise
Unreadable(file) ==
    \/ file.git = "raises"
    \/ file.git = "CalledProcessError" /\ file.disk # "read"

\* C14: for a file whose content cannot be read get_file_context returns a
\* FileContext of language unknown with no imports, functions or classes,
\* whatever the extension of the file.
C14_UnreadableIsUnknown ==
    (Called /\ Unreadable(fin.file)) =>
        /\ fout.kind = "returned"
        /\ fout.value.language = "unknown"
        /\ fout.value.imports = <<>>
        /\ fout.value.functions = <<>>
        /\ fout.value.classes = <<>>

\* the part of C14 that the code has: get_file_context returns, and for an
\* unreadable file the three lists are empty; the language is unknown when
\* a read raised something other than the two expected exceptions
C14_UnreadableIsEmpty ==
    (Called /\ Unreadable(fin.file)) =>
        /\ fout.kind = "returned"
        /\ fout.value.imports = <<>>
        /\ fout.value.functions = <<>>
        /\ fout.value.classes = <<>>
        /\ fout.value.language # _detect_language(fin.file_path) =>
               /\ fout.value.language = "unknown"
               /\ fin.file.git = "raises" \/ fin.file.disk = "raises"

\* the lines of a hunk that the diff removes
RemovedLines(hunk) == SelectSeq(hunk.lines, LAMBDA line : startswith(line, "-"))

\* the number of removed function definitions in the hunks
RECURSIVE RemovedDefinitionCount(_)
RemovedDefinitionCount(hunks) ==
    IF hunks = <<>> THEN 0
    ELSE Cardinality({ i \in 1..Len(hunks[1].lines) : hunks[1].lines[i] \in RemovedDefinitions })
         + RemovedDefinitionCount(Tail(hunks))

TrueChecks(all_files) ==
    LET file_paths == [i \in 1..Len(all_files) |-> lower(all_files[i])]
    IN  [ p \in {"MVC (Model-View-Controller)", "Microservices", "Layered Architecture",
                 "Clean Architecture", "Component-Based Frontend"} |->
            CASE p = "MVC (Model-View-Controller)" -> Len(mvc_evidence(file_paths))
              [] p = "Microservices" -> Len(microservices_evidence(file_paths))
              [] p = "Layered Architecture" -> Len(layered_evidence(file_paths))
              [] p = "Clean Architecture" -> Len(clean_evidence(file_paths))
              [] p = "Component-Based Frontend" ->
                     Len(component_evidence(all_files, file_paths)) ]

\* the number of evidence checks each named pattern has
DefinedChecks ==
    [ p \in DOMAIN TrueChecks(<<>>) |->
        IF p \in {"Microservices", "Component-Based Frontend"} THEN 4 ELSE 3 ]

Constructed == pc = "done" /\ fin \in Environments

\* C17: construction raises if and only if the registry it leaves is empty.
C17_FatalIffRegistryEmpty ==
    Constructed => (fout.kind = "raised" <=> providers = {})

\* the part of C17 that the code has: when the providers file can be read,
\* the registry holds exactly the providers that pass validation, those
\* listed after a failing one included, and the constructor returns; it
\* raises only when no provider is available to an AICodeReviewer or the
\* providers file cannot be read
C17_FailedProvidersLeftOut ==
    Constructed =>
        LET configs == IF fin.config_file.kind = "unset" THEN DefaultConfigs
                       ELSE fin.config_file.configs
        IN  IF fout.kind = "returned"
            THEN providers = { configs[n][1] : n \in { k \in 1..Len(configs) :
                                   Loads(configs[k][1], configs[k][2], fin) } }
            ELSE /\ providers = {}
                 /\ \/ fin.class = "AICodeReviewer" /\ _detect_available_providers(fin) = <<>>
                    \/ fin.config_file.kind \in {"not json", "array"}


\* a backend returned output that cannot be decoded for a piece of the diff
SomeReplyUndecodable ==
    \E n \in 1..Len(done_chunks) : done_chunks[n] = Returned(ReplyProse)

HasSynthetic(reviews) ==
    \E n \in 1..Len(reviews) :
        reviews[n].severity = JStr("info") /\ reviews[n].category = JStr("system")

\* C19: when a backend returned undecodable output, the reviews review_diff
\* returns are not empty and hold the synthetic info/system finding, for a
\* diff reviewed in one piece and for a diff reviewed in chunks.
C19_UndecodableYieldsFinding ==
    (pc = "done" /\ SomeReplyUndecodable) =>
        /\ diff_result.reviews # <<>>
        /\ HasSynthetic(diff_result.reviews)

\* the part of C19 that the code has: for a diff reviewed in one piece the
\* undecodable reply gives the one synthetic finding; in a chunked review it
\* gives no finding at all, the reviews are those of the other chunks
C19_OnlyInOnePiece ==
    (pc = "done" /\ SomeReplyUndecodable) =>
        IF Chunked
        THEN diff_result = ReturnedReviews(ReviewsOfRecords(FindingsOfChunks(done_chunks)))
        ELSE diff_result = ReturnedReviews(_create_fallback_review(ReplyProse))

\* what review_diff returns for the diff under review when the reply to
\* every piece cannot be parsed
RECURSIVE FindingsOfUnparsed(_)
FindingsOfUnparsed(n) ==
    IF n = 0 THEN <<>>
    ELSE FindingsAfter(FindingsOfUnparsed(n - 1), Returned(ReplyProse))

UnparsedOutcome ==
    ReviewDiff(IF Chunked THEN Combined(FindingsOfUnparsed(Len(chunks)))
               ELSE Returned(ReplyProse))

\* every provider failed for every piece of the diff
Exhausted ==
    /\ pc = "done"
    /\ \A n \in 1..Len(done_chunks) : done_chunks[n] = Raised("ProviderException")

\* C20: what review_diff returns when every provider failed differs from what
\* it returns when the providers reply and no reply can be parsed, for a
\* diff reviewed in one piece and for a diff reviewed in chunks.
C20_ExhaustionDiffersFromUnparsed ==
    Exhausted => diff_result # UnparsedOutcome

\* the part of C20 that the code has: the two outcomes differ for a diff
\* reviewed in one piece (no review, and the synthetic one), and both are
\* the empty list for a diff reviewed in chunks
C20_OnlyInOnePiece ==
    Exhausted =>
        /\ diff_result = ReturnedReviews(<<>>)
        /\ UnparsedOutcome = IF Chunked THEN ReturnedReviews(<<>>)
                             ELSE ReturnedReviews(_create_fallback_review(ReplyProse))


\* the gathering of the context met an error: a changed file that cannot
\* be read, a git command that fails or cannot be run
GatheringError ==
    \/ fin.file.git # "printed"
    \/ fin.ls_files.git # "printed"

\* the review that follows the gathering has ended with the outcome
\* review_code gave, a provider having replied to a piece of the diff
Reviewed ==
    /\ pc = "done"
    /\ diff_result = ReviewDiff(code_result)
    /\ \E n \in 1..Len(done_chunks) : done_chunks[n].kind = "returned"

\* C21: an error met while the context is gathered is recovered there: the
\* gathering returns a context, the diff goes to review_code, and the
\* result of review_diff is the one the review gives.
C21_GatheringErrorRecovered ==
    (fin \in GatherEnvironments /\ GatheringError /\ pc # "gather") =>
        /\ fout.kind = "returned"
        /\ pc = "done" => diff_result = ReviewDiff(code_result)

\* the part of C21 that the code has: a changed file that cannot be read
\* and a git ls-files that fails are recovered with an empty context and the
\* diff is reviewed; a git ls-files that cannot be run ends review_diff
\* with [] before any provider is called
C21_RecoveredUnlessListingRaises ==
    (fin \in GatherEnvironments /\ pc # "gather") =>
        IF fin.ls_files.git = "raises"
        THEN pc = "done" /\ diff_result = ReturnedReviews(<<>>)
             /\ done_chunks = <<>> /\ attempts = <<>>
        ELSE /\ fout.kind = "returned"
             /\ \A f \in DOMAIN fout.value.file_contexts :
                    Unreadable(fin.file) => fout.value.file_contexts[f].total_lines <= 1
             /\ pc = "done" => diff_result = ReviewDiff(code_result)


\* a record of the reply lacks a required field
SomeRecordIncomplete ==
    \E n \in 1..Len(fin.records) : ~Subscriptable(fin.records[n])

\* C22: when a record of the decoded array lacks a required field, the
\* decode fails as a whole: no review built from a record of the reply is
\* returned, the complete records are not kept one by one.
C22_NoReviewOfIncompleteReply ==
    (Called /\ SomeRecordIncomplete) =>
        /\ \A m \in 1..Len(fout.value), n \in 1..Len(fin.records) :
               Subscriptable(fin.records[n]) => fout.value[m] # CodeReview(fin.records[n])
        /\ Len(fout.value) < Len(fin.records)

\* a reply of a complete record and one without message has been parsed:
\* nothing is returned
C22_Witness ==
    /\ Called
    /\ fin.records = << Finding("critical", "security", "a.py", 1, 2, "x", <<>>),
                        Without(Finding("major", "bug", "c.py", 7, 9, "m", <<>>), "message") >>
    /\ fout = Result(<<>>)


\* the @@ lines of the diff whose header the pattern matches, and the others
WellFormedHeaders(diff) == { i \in HeaderLines(diff) : SearchHeader(diff[i]).matched }

MalformedHeaders(diff) == HeaderLines(diff) \ WellFormedHeaders(diff)

\* a diff that opens a file section with its first line, holds a @@ line
\* that cannot be interpreted, and no number too long for int()
HasMalformedHeader ==
    /\ fin \in HunkInputs
    /\ fin.diff \notin LongHeaderDiffs
    /\ startswith(fin.diff[1], "diff --git")
    /\ MalformedHeaders(fin.diff) # {}

\* C23: a @@ line whose header cannot be interpreted is skipped: it makes no
\* hunk, the hunk before it is returned once and the well-formed hunks after
\* it are returned, so there is exactly one hunk per well-formed @@ header.
C23_MalformedHeaderSkipped ==
    (Called /\ HasMalformedHeader) =>
        /\ fout.kind = "returned"
        /\ Len(fout.value) = Cardinality(WellFormedHeaders(fin.diff))

\* the part of C23 that the code has: parsing goes on after the malformed
\* header, every hunk returned is that of a well-formed header and every
\* well-formed header has its hunk; the hunk that is open at a malformed
\* header is returned once more at the next flush
C23_LaterHunksReturned ==
    (Called /\ HasMalformedHeader) =>
        /\ fout.kind = "returned"
        /\ Len(fout.value) >= Cardinality(WellFormedHeaders(fin.diff))
        /\ \A i \in WellFormedHeaders(fin.diff) :
               \E n \in 1..Len(fout.value) :
                   fout.value[n].new_start = IntOf(SearchHeader(fin.diff[i]).group3)
        /\ \A n \in 1..Len(fout.value) :
               \E i \in WellFormedHeaders(fin.diff) :
                   fout.value[n].new_start = IntOf(SearchHeader(fin.diff[i]).group3)


\* the post-image path of a file header: the text after the last " b/"
PostImagePath(line) == DropFirst(line, rfind(line, " b/") + 3)

\* the file headers of the diff
FileHeaders(diff) == { i \in 1..Len(diff) : startswith(diff[i], "diff --git") }

\* C24: every hunk returned has as file_path the post-image path of a file
\* header of the diff, the header of the section the hunk is in, for paths
\* that hold the characters b/ as for the others.
C24_PostImagePath ==
    (Called /\ fin \in HunkInputs /\ fout.kind = "returned") =>
        \A n \in 1..Len(fout.value) :
            \E i \in FileHeaders(fin.diff) :
                fout.value[n].file_path = PostImagePath(fin.diff[i])

\* the part of C24 that the code has: the file_path of a hunk is the text
\* after the first b/ of a file header, which is the post-image path when
\* the pre-image path holds no b/
C24_AfterFirstMarker ==
    (Called /\ fin \in HunkInputs /\ fout.kind = "returned") =>
        \A n \in 1..Len(fout.value) :
            \E i \in FileHeaders(fin.diff) :
                /\ fout.value[n].file_path = DropFirst(fin.diff[i], find(fin.diff[i], "b/") + 2)
                /\ find(fin.diff[i], "b/") = rfind(fin.diff[i], " b/") + 1 =>
                       fout.value[n].file_path = PostImagePath(fin.diff[i])


\* the lines of the file numbered lo to hi that the file has (none for a
\* file that cannot be read)
FileLines(file, lo, hi) ==
    IF get_file_content(file).kind = "raised" THEN <<>>
    ELSE LET lines == SplitLines(get_file_content(file).value)
         IN  SubSeq(lines, Max(1, lo), Min(hi, Len(lines)))

\* C25: context_before holds at most 10 lines, the lines of the file just
\* before line new_start, and context_after at most 10 lines, those just
\* after the last line of the new range, for every new_start and new_count
\* from 0 on.
C25_TenLinesOfContext ==
    (Called /\ fin \in HunkContextInputs) =>
        /\ Len(fout.value.context_before) <= 10
        /\ fout.value.context_before = FileLines(fin.file, fin.new_start - 10, fin.new_start - 1)
        /\ Len(fout.value.context_after) <= 10
        /\ fout.value.context_after = FileLines(fin.file, fin.new_start + fin.new_count,
                                                fin.new_start + fin.new_count + 9)

\* the part of C25 that the code has: for new_start >= 1 context_before is
\* the up to 10 lines before new_start; for new_start = 0 it is the file
\* without its last line; context_after is the up to 11 lines from the first
\* line after the new range on
C25_ElevenLinesAfter ==
    (Called /\ fin \in HunkContextInputs) =>
        /\ fin.new_start >= 1 =>
               /\ Len(fout.value.context_before) <= 10
               /\ fout.value.context_before
                      = FileLines(fin.file, fin.new_start - 10, fin.new_start - 1)
        /\ fin.new_start = 0 =>
               fout.value.context_before
                   = FileLines(fin.file, 1, Len(FileLines(fin.file, 1, MaxFileLines)) - 1)
        /\ Len(fout.value.context_after) <= 11
        /\ fout.value.context_after = FileLines(fin.file, fin.new_start + fin.new_count,
                                                fin.new_start + fin.new_count + 10)


\* the number of times the file is listed in the structure
RECURSIVE TimesListed(_, _)
TimesListed(structure, file_path) ==
    IF structure = <<>> THEN 0
    ELSE Cardinality({ n \in 1..Len(structure[1][2]) : structure[1][2][n] = file_path })
         + TimesListed(Tail(structure), file_path)

TimesGiven(all_files, file_path) ==
    Cardinality({ i \in 1..Len(all_files) : all_files[i] = file_path })

\* C26: every file of the input is in exactly one category of the output,
\* one of the eight, none is missing and none is in two, and no category of
\* the output is empty.
C26_EveryFileInOneCategory ==
    (Called /\ fin \in ListsUpTo(StructurePaths, MaxAllFiles)) =>
        /\ \A n \in 1..Len(fout.value) :
               /\ \E k \in 1..Len(Categories) : fout.value[n][1] = Categories[k]
               /\ fout.value[n][2] # <<>>
               /\ \A j \in 1..Len(fout.value) : fout.value[j][1] = fout.value[n][1] => j = n
        /\ \A i \in 1..Len(fin) :
               TimesListed(fout.value, fin[i]) = TimesGiven(fin, fin[i])

\* the part of C26 that the code has: a file is listed under the first
\* category whose rule holds for it and under no other, a file for which no
\* rule holds is listed nowhere, and no category of the output is empty
C26_FirstRuleOrNowhere ==
    (Called /\ fin \in ListsUpTo(StructurePaths, MaxAllFiles)) =>
        /\ \A n \in 1..Len(fout.value) :
               /\ fout.value[n][2] # <<>>
               /\ \A j \in 1..Len(fout.value[n][2]) :
                      CategoryOf(fout.value[n][2][j]) = fout.value[n][1]
        /\ \A i \in 1..Len(fin) :
               TimesListed(fout.value, fin[i])
                   = IF CategoryOf(fin[i]) = "" THEN 0 ELSE TimesGiven(fin, fin[i])


\* C27: within the review of one chunk complete() is called at most once on
\* each provider, whatever the primary provider and the fallback list, a
\* list that names the primary included.
C27_AtMostOncePerProvider ==
    \A i, j \in 1..Len(attempts) :
        attempts[i].provider = attempts[j].provider => i = j

\* the part of C27 that the code has: a provider is called once for each
\* time it stands in the chain of the primary and the fallbacks, so once
\* when the fallback list names no provider twice and not the primary
C27_OncePerPlaceInChain ==
    \A p \in ProviderIds :
        Cardinality({ i \in 1..Len(attempts) : attempts[i].provider = p })
            <= (IF p = primary_provider THEN 1 ELSE 0)
               + Cardinality({ k \in 1..Len(fallback_providers) : fallback_providers[k] = p })


\* the fallback list that was passed to the reviewer: a list passed has at
\* most MaxFallbacks entries of ProviderIds, so the default list stands for
\* an empty one (or none)
GivenFallbacks ==
    IF fallback_providers = DefaultFallbacks THEN <<>> ELSE fallback_providers

\* C28: every provider complete() is called on is the primary provider or a
\* member of the fallback list passed to the reviewer; when that list is
\* empty no provider but the primary is called.
C28_OnlySelectedProviders ==
    \A i \in 1..Len(attempts) :
        \/ attempts[i].provider = primary_provider
        \/ attempts[i].provider \in Members(GivenFallbacks)

\* the part of C28 that the code has: every provider called is the primary
\* or a member of the reviewer's fallback list, which is the list passed or,
\* for an empty one, the default list
C28_PrimaryOrReviewersFallbacks ==
    \A i \in 1..Len(attempts) :
        \/ attempts[i].provider = primary_provider
        \/ attempts[i].provider \in Members(fallback_providers)


\* '\n'.join(chunks), as its lines: the lines of the chunks' texts in order
JoinChunks(texts) ==
    LET lines(k) == JoinLines(texts[k]) IN CatSeq(lines, 1, Len(texts))

\* C29: for every diff and budget the chunks _chunk_diff returns are
\* non-empty texts, and joined with newline characters in order they give
\* back the diff exactly.
C29_ChunksGiveBackDiff ==
    Called =>
        /\ \A n \in 1..Len(fout.value) : JoinedLen(fout.value[n]) > 0
        /\ JoinChunks(fout.value) = fin.diff

\* the part of C29 that the code has: every chunk holds at least one line
\* of the diff, and the chunks joined in order give back the diff
C29_JoinGivesBackDiff ==
    Called =>
        /\ \A n \in 1..Len(fout.value) : fout.value[n] # <<>>
        /\ JoinChunks(fout.value) = fin.diff


\* the acquire() calls that completed in the time_window seconds from t on
CompletedIn(t) ==
    { i \in 1..Len(acquired) : t <= acquired[i].at /\ acquired[i].at < t + time_window }

C30_UnsleptWithinLimit ==
    \A t \in 0..MaxClock :
        Cardinality({ i \in CompletedIn(t) : ~acquired[i].slept }) <= max_requests


====
